---- MODULE Spec2Model ----
(***************************************************************************)
(* Model of the CEC initiator (bit-banging transmit state machine) of the  *)
(* NPCX CEC driver: src/unnamed/part_000, lines 229-680, and of the port   *)
(* 80 history: src/common/port80.c.                                        *)
(*                                                                         *)
(* Execution contexts:                                                     *)
(*   - task context: hc_cec_write/cec_send (host command), split into the  *)
(*     steps of cec_send so that the interrupt handler can run in between; *)
(*   - task context: cec_get_next_event (drain of the pending events);     *)
(*   - interrupt context: cec_isr, run to completion;                      *)
(*   - interrupt context: port_80_write, run to completion;                *)
(*   - task context: command_port80 (console command), split at the        *)
(*     iterations of its print loop.                                       *)
(***************************************************************************)
EXTENDS Integers, Sequences, FiniteSets, TLC

\* ------------------------------------------------------------------------
\* Program constants
\* ------------------------------------------------------------------------
MAX_CEC_MSG_LEN == 16
CEC_BROADCAST_ADDR == 15
CEC_MAX_RESENDS == 5
EC_MKBP_CEC_SEND_OK == 1
EC_MKBP_CEC_SEND_FAILED == 2
HISTORY_LEN == 16

\* ------------------------------------------------------------------------
\* Bounds of the model
\* ------------------------------------------------------------------------
\* Message lengths offered to the host command with every header are
\* 1..MaxLen (the maximum length MAX_CEC_MSG_LEN is offered as well).
MaxLen == 2
\* Clock basis (APB1 frequency / 10000) of the state-machine specification.
SpecBasis == 1
\* The timing specification ranges over the clock bases 0..MaxTimingBasis.
MaxTimingBasis == 600
\* largest clock basis of the free-time specification
MaxFreeTimeBasis == 24
\* The port 80 specification makes up to MaxWrites port 80 writes, of which
\* up to MaxRacingWrites come in while one history print is in progress.
MaxWrites == 20
MaxRacingWrites == 1

\* enum cec_state
CEC_STATE_IDLE == "IDLE"
CEC_STATE_INITIATOR_FREE_TIME == "FREE_TIME"
CEC_STATE_INITIATOR_START_LOW == "START_LOW"
CEC_STATE_INITIATOR_START_HIGH == "START_HIGH"
CEC_STATE_INITIATOR_HEADER_INIT_LOW == "HEADER_INIT_LOW"
CEC_STATE_INITIATOR_HEADER_INIT_HIGH == "HEADER_INIT_HIGH"
CEC_STATE_INITIATOR_HEADER_DEST_LOW == "HEADER_DEST_LOW"
CEC_STATE_INITIATOR_HEADER_DEST_HIGH == "HEADER_DEST_HIGH"
CEC_STATE_INITIATOR_DATA_LOW == "DATA_LOW"
CEC_STATE_INITIATOR_DATA_HIGH == "DATA_HIGH"
CEC_STATE_INITIATOR_EOM_LOW == "EOM_LOW"
CEC_STATE_INITIATOR_EOM_HIGH == "EOM_HIGH"
CEC_STATE_INITIATOR_ACK_LOW == "ACK_LOW"
CEC_STATE_INITIATOR_ACK_HIGH == "ACK_HIGH"
CEC_STATE_INITIATOR_ACK_VERIFY == "ACK_VERIFY"

cec_state_enum ==
  { CEC_STATE_IDLE, CEC_STATE_INITIATOR_FREE_TIME,
    CEC_STATE_INITIATOR_START_LOW, CEC_STATE_INITIATOR_START_HIGH,
    CEC_STATE_INITIATOR_HEADER_INIT_LOW, CEC_STATE_INITIATOR_HEADER_INIT_HIGH,
    CEC_STATE_INITIATOR_HEADER_DEST_LOW, CEC_STATE_INITIATOR_HEADER_DEST_HIGH,
    CEC_STATE_INITIATOR_DATA_LOW, CEC_STATE_INITIATOR_DATA_HIGH,
    CEC_STATE_INITIATOR_EOM_LOW, CEC_STATE_INITIATOR_EOM_HIGH,
    CEC_STATE_INITIATOR_ACK_LOW, CEC_STATE_INITIATOR_ACK_HIGH,
    CEC_STATE_INITIATOR_ACK_VERIFY }

VARIABLES
  cec_state,          \* static enum cec_state cec_state
  buf,                \* cec_tx.msgt.buf, indexed 0..MAX_CEC_MSG_LEN-1
  bit,                \* cec_tx.msgt.bit
  byte,               \* cec_tx.msgt.byte
  len,                \* cec_tx.len
  resends,            \* cec_tx.resends
  ack,                \* cec_tx.ack
  cec_events,         \* static uint32_t cec_events
  apb1_freq_div_10k,  \* clock basis set by cec_init
  gpio_out,           \* level last driven on CEC_GPIO_OUT (-1: never driven)
  line_sample,        \* level last returned by gpio_get_level (-1: never read)
  tmr1_running,       \* timer 1 clock selected (tmr_oneshot_start)
  tmr1_cnt,           \* value last loaded into the timer 1 counter
  tmr2_pending,       \* timer 2 started by cec_send and not yet stopped
  send_pc,            \* position of the host task inside cec_send
  send_msg,           \* the msg/len arguments of the cec_send in progress
  ret,                \* result of the last completed hc_cec_write
  tx_admitted,        \* history: a transfer has been admitted
  tx_frames,          \* history: START_LOW entries of the current transfer
  tx_ok,              \* history: send-ok outcomes of the current transfer
  tx_failed,          \* history: send-failed outcomes of the current transfer
  seen_low,           \* history: an ACK sample of the transfer read low
  seen_high,          \* history: an ACK sample of the transfer read high
  frame_bits,         \* observer: bit periods completed in the frame in progress
  undelivered,        \* observer: outcome flags recorded and not yet drained
  redelivered,        \* observer: a drain returned a flag already delivered
  history,            \* static uint8_t history[HISTORY_LEN], indexed from 0
  writes,             \* static int writes
  scroll,             \* static int scroll
  port80_print,       \* last line printed by port_80_write: lead char, data
  console,            \* output of the last console command
  p80_pc,             \* position of the console task inside command_port80
  p80_head,           \* local head of command_port80
  p80_i,              \* local i of command_port80
  p80_written,        \* history: the data of every port_80_write, in order
  p80_raced           \* history: writes that came in during the last print

tx_vars == <<cec_state, buf, bit, byte, len, resends, ack>>
hw_vars == <<gpio_out, line_sample, tmr1_running, tmr1_cnt, tmr2_pending>>
task_vars == <<send_pc, send_msg, ret>>
hist_vars == <<tx_admitted, tx_frames, tx_ok, tx_failed, seen_low, seen_high>>
obs_vars == <<frame_bits, undelivered, redelivered>>
cec_vars == <<tx_vars, cec_events, apb1_freq_div_10k, hw_vars, task_vars,
              hist_vars, obs_vars>>
p80_vars == <<history, writes, scroll, port80_print, console, p80_pc,
              p80_head, p80_i, p80_written, p80_raced>>
vars == <<cec_vars, p80_vars>>

\* ------------------------------------------------------------------------
\* Integer helpers (C fixed-width arithmetic)
\* ------------------------------------------------------------------------
Pow2(n) == IF n = 0 THEN 1 ELSE
           IF n = 1 THEN 2 ELSE
           IF n = 2 THEN 4 ELSE
           IF n = 3 THEN 8 ELSE
           IF n = 4 THEN 16 ELSE
           IF n = 5 THEN 32 ELSE
           IF n = 6 THEN 64 ELSE 128

U8(x) == x % 256

\* x & (1 << k) for a byte x
BitAnd1(x, k) == ((x \div Pow2(k)) % 2) * Pow2(k)

\* a | b on the two event flags
BitOr(a, b) ==
  (IF (a % 2 = 1) \/ (b % 2 = 1) THEN 1 ELSE 0)
  + (IF ((a \div 2) % 2 = 1) \/ ((b \div 2) % 2 = 1) THEN 2 ELSE 0)

\* a & ~b on the two event flags
BitClear(a, b) ==
  (IF (a % 2 = 1) /\ (b % 2 = 0) THEN 1 ELSE 0)
  + (IF ((a \div 2) % 2 = 1) /\ ((b \div 2) % 2 = 0) THEN 2 ELSE 0)

\* ------------------------------------------------------------------------
\* Timing table (ticks of the timer clock)
\* ------------------------------------------------------------------------
\* Mutant of APB1_TICKS: the product divided by 10000.
APB1_TICKS_Div10000(t) == (t * apb1_freq_div_10k) \div 10000

\* #define APB1_TICKS(t) ((t) * apb1_freq_div_10k / 100).  The arithmetic is
\* uint32_t; for every clock basis of the model (and every basis below
\* 1160803, an APB1 clock of 11.6 GHz) no product or sum reaches 2^32, so
\* it is written here without the reduction modulo 2^32.
APB1_TICKS(t) == (t * apb1_freq_div_10k) \div 100

NOMINAL_BIT_TIME == APB1_TICKS(2400)
\* Mutant of FREE_TIME_RS: the resend free time as long as the new-initiator
\* free time.
FREE_TIME_RS_AsNewInitiator == 5 * NOMINAL_BIT_TIME
FREE_TIME_RS == 3 * NOMINAL_BIT_TIME
FREE_TIME_NI == 5 * NOMINAL_BIT_TIME
START_BIT_LOW == APB1_TICKS(3700)
START_BIT_HIGH == APB1_TICKS(800)
DATA_ZERO_LOW == APB1_TICKS(1500)
DATA_ZERO_HIGH == APB1_TICKS(900)
DATA_ONE_LOW == APB1_TICKS(600)
DATA_ONE_HIGH == APB1_TICKS(1800)
\* Mutant of NOMINAL_SAMPLE_TIME: the sample point at the end of a zero's
\* low time.
NOMINAL_SAMPLE_TIME_Late == APB1_TICKS(1500)
NOMINAL_SAMPLE_TIME == APB1_TICKS(1050)

\* Mutant of DATA_LOW: the two curves exchanged.
DATA_LOW_Swapped(data) == IF data # 0 THEN DATA_ZERO_LOW ELSE DATA_ONE_LOW

\* DATA_TIME(type, data): any non-zero data selects the data-one timing
DATA_HIGH_Swapped(data) == IF data # 0 THEN DATA_ZERO_HIGH ELSE DATA_ONE_HIGH
DATA_HIGH(data) == IF data # 0 THEN DATA_ONE_HIGH ELSE DATA_ZERO_HIGH
DATA_LOW(data) == IF data # 0 THEN DATA_ONE_LOW ELSE DATA_ZERO_LOW

\* ------------------------------------------------------------------------
\* Message transfer cursor.  m is a snapshot of the driver's data:
\* [state, buf, bit, byte, len, resends, ack, events, gpio, sample,
\*  running, cnt, frames, ok, failed, seen_low, seen_high, trace,
\*  undelivered]
\* ------------------------------------------------------------------------
\* Mutants of msgt_get_bit: the bits of a byte taken least-significant
\* first; the guard on the declared length instead of the buffer size.
msgt_get_bit_LsbFirst(m) ==
  IF m.byte >= MAX_CEC_MSG_LEN THEN 0
  ELSE BitAnd1(m.buf[m.byte], m.bit)

msgt_get_bit_LenGuard(m) ==
  IF m.byte >= m.len THEN 0
  ELSE BitAnd1(m.buf[m.byte], 7 - m.bit)

msgt_get_bit(m) ==
  IF m.byte >= MAX_CEC_MSG_LEN THEN 0
  ELSE BitAnd1(m.buf[m.byte], 7 - m.bit)

\* Mutant of msgt_inc_bit: the bit offset wraps one step late.
msgt_inc_bit_LateWrap(m) ==
  IF U8(m.bit + 1) = 9
  THEN IF m.byte >= MAX_CEC_MSG_LEN
       THEN [m EXCEPT !.bit = 9]
       ELSE [m EXCEPT !.bit = 0, !.byte = U8(m.byte + 1)]
  ELSE [m EXCEPT !.bit = U8(m.bit + 1)]

msgt_inc_bit(m) ==
  IF U8(m.bit + 1) = 8
  THEN IF m.byte >= MAX_CEC_MSG_LEN
       THEN [m EXCEPT !.bit = 8]
       ELSE [m EXCEPT !.bit = 0, !.byte = U8(m.byte + 1)]
  ELSE [m EXCEPT !.bit = U8(m.bit + 1)]

\* Mutant of msgt_is_eom: end of message reported one byte late.
msgt_is_eom_Late(m, length) ==
  IF m.bit # 0 THEN 0
  ELSE IF m.byte = length + 1 THEN 1 ELSE 0

msgt_is_eom(m, length) ==
  IF m.bit # 0 THEN 0
  ELSE IF m.byte = length THEN 1 ELSE 0

\* ------------------------------------------------------------------------
\* Hardware and event helpers
\* ------------------------------------------------------------------------
\* atomic_or(&cec_events, event); mkbp_send_event(EC_MKBP_EVENT_CEC)
\* Mutant of send_mkbp_event: the flag is stored over the pending ones.
send_mkbp_event_Overwrite(m, event) ==
  [m EXCEPT !.events = event,
            !.undelivered = BitOr(m.undelivered, event),
            !.ok = IF event = EC_MKBP_CEC_SEND_OK THEN m.ok + 1 ELSE m.ok,
            !.failed = IF event = EC_MKBP_CEC_SEND_FAILED
                       THEN m.failed + 1 ELSE m.failed]

send_mkbp_event(m, event) ==
  [m EXCEPT !.events = BitOr(m.events, event),
            !.undelivered = BitOr(m.undelivered, event),
            !.ok = IF event = EC_MKBP_CEC_SEND_OK THEN m.ok + 1 ELSE m.ok,
            !.failed = IF event = EC_MKBP_CEC_SEND_FAILED
                       THEN m.failed + 1 ELSE m.failed]

tmr_oneshot_start(m, timeout) ==
  [m EXCEPT !.running = TRUE, !.cnt = timeout]

\* Levels gpio_get_level can return on the open-drain line: low while the
\* initiator drives it low, otherwise whatever the followers do.
LineLevels == IF gpio_out = 0 THEN {0} ELSE {0, 1}

\* Mutants of AckOfLevel: the broadcast inversion left out; the negation of
\* the sampled level left out.
AckOfLevel_NoBroadcast(level, header) ==
  IF level = 0 THEN 1 ELSE 0

AckOfLevel_NoNegate(level, header) ==
  IF header % 16 = CEC_BROADCAST_ADDR
  THEN (IF level = 0 THEN 1 ELSE 0)
  ELSE (IF level = 0 THEN 0 ELSE 1)

\* cec_tx.ack as computed on entry to ACK_VERIFY from the sampled level
AckOfLevel(level, header) ==
  LET a == IF level = 0 THEN 1 ELSE 0
  IN IF header % 16 = CEC_BROADCAST_ADDR
     THEN (IF a = 0 THEN 1 ELSE 0)
     ELSE a

\* Mutant of EnterGpio: the line is not released on entry to FREE_TIME.
EnterGpio_FreeTimeUnset(new_state) ==
  CASE new_state \in { CEC_STATE_INITIATOR_START_HIGH,
                       CEC_STATE_INITIATOR_HEADER_INIT_HIGH,
                       CEC_STATE_INITIATOR_HEADER_DEST_HIGH,
                       CEC_STATE_INITIATOR_DATA_HIGH,
                       CEC_STATE_INITIATOR_EOM_HIGH,
                       CEC_STATE_INITIATOR_ACK_HIGH } -> 1
    [] new_state \in { CEC_STATE_INITIATOR_START_LOW,
                       CEC_STATE_INITIATOR_HEADER_INIT_LOW,
                       CEC_STATE_INITIATOR_HEADER_DEST_LOW,
                       CEC_STATE_INITIATOR_DATA_LOW,
                       CEC_STATE_INITIATOR_EOM_LOW,
                       CEC_STATE_INITIATOR_ACK_LOW } -> 0
    [] OTHER -> -1

\* ------------------------------------------------------------------------
\* enter_state: the entry action of every state
\* ------------------------------------------------------------------------
\* the local variable gpio (-1: line left as it is)
EnterGpio(new_state) ==
  CASE new_state \in { CEC_STATE_INITIATOR_FREE_TIME,
                       CEC_STATE_INITIATOR_START_HIGH,
                       CEC_STATE_INITIATOR_HEADER_INIT_HIGH,
                       CEC_STATE_INITIATOR_HEADER_DEST_HIGH,
                       CEC_STATE_INITIATOR_DATA_HIGH,
                       CEC_STATE_INITIATOR_EOM_HIGH,
                       CEC_STATE_INITIATOR_ACK_HIGH } -> 1
    [] new_state \in { CEC_STATE_INITIATOR_START_LOW,
                       CEC_STATE_INITIATOR_HEADER_INIT_LOW,
                       CEC_STATE_INITIATOR_HEADER_DEST_LOW,
                       CEC_STATE_INITIATOR_DATA_LOW,
                       CEC_STATE_INITIATOR_EOM_LOW,
                       CEC_STATE_INITIATOR_ACK_LOW } -> 0
    [] OTHER -> -1

\* the local variable timeout (-1: no timer armed); m is the snapshot after
\* the cursor assignments of the entry action
EnterTimeout(m, new_state) ==
  CASE new_state = CEC_STATE_IDLE -> -1
    [] new_state = CEC_STATE_INITIATOR_FREE_TIME ->
         IF m.resends # 0 THEN FREE_TIME_RS ELSE FREE_TIME_NI
    [] new_state = CEC_STATE_INITIATOR_START_LOW -> START_BIT_LOW
    [] new_state = CEC_STATE_INITIATOR_START_HIGH -> START_BIT_HIGH
    [] new_state \in { CEC_STATE_INITIATOR_HEADER_INIT_LOW,
                       CEC_STATE_INITIATOR_HEADER_DEST_LOW,
                       CEC_STATE_INITIATOR_DATA_LOW } ->
         DATA_LOW(msgt_get_bit(m))
    [] new_state \in { CEC_STATE_INITIATOR_HEADER_INIT_HIGH,
                       CEC_STATE_INITIATOR_HEADER_DEST_HIGH,
                       CEC_STATE_INITIATOR_DATA_HIGH } ->
         DATA_HIGH(msgt_get_bit(m))
    [] new_state = CEC_STATE_INITIATOR_EOM_LOW ->
         DATA_LOW(msgt_is_eom(m, m.len))
    [] new_state = CEC_STATE_INITIATOR_EOM_HIGH ->
         DATA_HIGH(msgt_is_eom(m, m.len))
    [] new_state = CEC_STATE_INITIATOR_ACK_LOW -> DATA_LOW(1)
    [] new_state = CEC_STATE_INITIATOR_ACK_HIGH ->
         (DATA_ONE_LOW + DATA_ZERO_LOW) \div 2 - DATA_ONE_LOW
    [] new_state = CEC_STATE_INITIATOR_ACK_VERIFY ->
         NOMINAL_BIT_TIME - NOMINAL_SAMPLE_TIME

\* Mutant of EnterFields: the cursor is reset on entry to idle only, not on
\* entry to START_LOW.
EnterFields_NoStartReset(m, new_state, level) ==
  CASE new_state = CEC_STATE_IDLE -> [m EXCEPT !.bit = 0, !.byte = 0]
    [] new_state = CEC_STATE_INITIATOR_START_LOW ->
         [m EXCEPT !.frames = m.frames + 1]
    [] new_state = CEC_STATE_INITIATOR_ACK_VERIFY ->
         [m EXCEPT !.ack = AckOfLevel(level, m.buf[0]),
                   !.sample = level,
                   !.seen_low = m.seen_low \/ (level = 0),
                   !.seen_high = m.seen_high \/ (level = 1)]
    [] OTHER -> m

\* the assignments to cec_tx made by the entry action; level is what
\* gpio_get_level returns if the action reads the line
EnterFields(m, new_state, level) ==
  CASE new_state \in { CEC_STATE_IDLE, CEC_STATE_INITIATOR_START_LOW } ->
         [m EXCEPT !.bit = 0, !.byte = 0,
                   !.frames = IF new_state = CEC_STATE_INITIATOR_START_LOW
                              THEN m.frames + 1 ELSE m.frames]
    [] new_state = CEC_STATE_INITIATOR_ACK_VERIFY ->
         [m EXCEPT !.ack = AckOfLevel(level, m.buf[0]),
                   !.sample = level,
                   !.seen_low = m.seen_low \/ (level = 0),
                   !.seen_high = m.seen_high \/ (level = 1)]
    [] OTHER -> m

\* Observer of the line: the bit periods of the frame in progress, each
\* decoded from the low time (the count armed in the Low state, m.cnt) and
\* the high time (the count armed on entry to the High state) when the line
\* is released.  "S" start bit, "0"/"1" data-zero/data-one period, "A" ACK
\* slot (data-one low time), "X" anything else.  Empty outside a frame.
Observe(m, new_state, timeout) ==
  CASE new_state \in { CEC_STATE_IDLE, CEC_STATE_INITIATOR_FREE_TIME,
                       CEC_STATE_INITIATOR_START_LOW } -> <<>>
    [] new_state = CEC_STATE_INITIATOR_START_HIGH ->
         Append(m.trace,
                IF m.cnt = START_BIT_LOW /\ timeout = START_BIT_HIGH
                THEN "S" ELSE "X")
    [] new_state \in { CEC_STATE_INITIATOR_HEADER_INIT_HIGH,
                       CEC_STATE_INITIATOR_HEADER_DEST_HIGH,
                       CEC_STATE_INITIATOR_DATA_HIGH,
                       CEC_STATE_INITIATOR_EOM_HIGH } ->
         Append(m.trace,
                IF m.cnt = DATA_ONE_LOW /\ timeout = DATA_ONE_HIGH THEN "1"
                ELSE IF m.cnt = DATA_ZERO_LOW /\ timeout = DATA_ZERO_HIGH
                     THEN "0" ELSE "X")
    [] new_state = CEC_STATE_INITIATOR_ACK_HIGH ->
         Append(m.trace, IF m.cnt = DATA_ONE_LOW THEN "A" ELSE "X")
    [] OTHER -> m.trace

enter_state(m, new_state, level) ==
  LET m1 == [EnterFields(m, new_state, level) EXCEPT !.state = new_state]
      gpio == EnterGpio(new_state)
      timeout == EnterTimeout(m1, new_state)
      m2 == IF gpio >= 0 THEN [m1 EXCEPT !.gpio = gpio] ELSE m1
      m3 == [m2 EXCEPT !.trace = Observe(m, new_state, timeout)]
  IN IF timeout >= 0 THEN tmr_oneshot_start(m3, timeout) ELSE m3

\* ------------------------------------------------------------------------
\* The transition function, run on expiry of timer 1
\* ------------------------------------------------------------------------
\* Mutants of AckVerifyTimeout: the resend bound tested with <=; the
\* resend counter not reset when the transfer fails; the abort branch
\* missing, so that nothing happens once the resends are exhausted; the
\* length not cleared when the transfer fails; the cursor advanced by one
\* bit before the next data byte; the resend counter cleared by an
\* acknowledged byte.
AckVerifyTimeout_AckResetsResends(m, level) ==
  IF m.ack # 0
  THEN IF msgt_is_eom(m, m.len) = 0
       THEN enter_state([m EXCEPT !.resends = 0],
                        CEC_STATE_INITIATOR_DATA_LOW, level)
       ELSE send_mkbp_event(
              enter_state([m EXCEPT !.len = 0, !.resends = 0],
                          CEC_STATE_IDLE, level),
              EC_MKBP_CEC_SEND_OK)
  ELSE IF m.resends < CEC_MAX_RESENDS
       THEN enter_state([m EXCEPT !.resends = U8(m.resends + 1)],
                        CEC_STATE_INITIATOR_FREE_TIME, level)
       ELSE send_mkbp_event(
              enter_state([m EXCEPT !.len = 0, !.resends = 0],
                          CEC_STATE_IDLE, level),
              EC_MKBP_CEC_SEND_FAILED)

AckVerifyTimeout_AdvancesCursor(m, level) ==
  IF m.ack # 0
  THEN IF msgt_is_eom(m, m.len) = 0
       THEN enter_state(msgt_inc_bit(m), CEC_STATE_INITIATOR_DATA_LOW, level)
       ELSE send_mkbp_event(
              enter_state([m EXCEPT !.len = 0, !.resends = 0],
                          CEC_STATE_IDLE, level),
              EC_MKBP_CEC_SEND_OK)
  ELSE IF m.resends < CEC_MAX_RESENDS
       THEN enter_state([m EXCEPT !.resends = U8(m.resends + 1)],
                        CEC_STATE_INITIATOR_FREE_TIME, level)
       ELSE send_mkbp_event(
              enter_state([m EXCEPT !.len = 0, !.resends = 0],
                          CEC_STATE_IDLE, level),
              EC_MKBP_CEC_SEND_FAILED)

AckVerifyTimeout_FailKeepsLen(m, level) ==
  IF m.ack # 0
  THEN IF msgt_is_eom(m, m.len) = 0
       THEN enter_state(m, CEC_STATE_INITIATOR_DATA_LOW, level)
       ELSE send_mkbp_event(
              enter_state([m EXCEPT !.len = 0, !.resends = 0],
                          CEC_STATE_IDLE, level),
              EC_MKBP_CEC_SEND_OK)
  ELSE IF m.resends < CEC_MAX_RESENDS
       THEN enter_state([m EXCEPT !.resends = U8(m.resends + 1)],
                        CEC_STATE_INITIATOR_FREE_TIME, level)
       ELSE send_mkbp_event(
              enter_state([m EXCEPT !.resends = 0], CEC_STATE_IDLE, level),
              EC_MKBP_CEC_SEND_FAILED)

AckVerifyTimeout_NoAbort(m, level) ==
  IF m.ack # 0
  THEN IF msgt_is_eom(m, m.len) = 0
       THEN enter_state(m, CEC_STATE_INITIATOR_DATA_LOW, level)
       ELSE send_mkbp_event(
              enter_state([m EXCEPT !.len = 0, !.resends = 0],
                          CEC_STATE_IDLE, level),
              EC_MKBP_CEC_SEND_OK)
  ELSE IF m.resends < CEC_MAX_RESENDS
       THEN enter_state([m EXCEPT !.resends = U8(m.resends + 1)],
                        CEC_STATE_INITIATOR_FREE_TIME, level)
       ELSE m

AckVerifyTimeout_OffByOne(m, level) ==
  IF m.ack # 0
  THEN IF msgt_is_eom(m, m.len) = 0
       THEN enter_state(m, CEC_STATE_INITIATOR_DATA_LOW, level)
       ELSE send_mkbp_event(
              enter_state([m EXCEPT !.len = 0, !.resends = 0],
                          CEC_STATE_IDLE, level),
              EC_MKBP_CEC_SEND_OK)
  ELSE IF m.resends <= CEC_MAX_RESENDS
       THEN enter_state([m EXCEPT !.resends = U8(m.resends + 1)],
                        CEC_STATE_INITIATOR_FREE_TIME, level)
       ELSE send_mkbp_event(
              enter_state([m EXCEPT !.len = 0, !.resends = 0],
                          CEC_STATE_IDLE, level),
              EC_MKBP_CEC_SEND_FAILED)

AckVerifyTimeout_NoReset(m, level) ==
  IF m.ack # 0
  THEN IF msgt_is_eom(m, m.len) = 0
       THEN enter_state(m, CEC_STATE_INITIATOR_DATA_LOW, level)
       ELSE send_mkbp_event(
              enter_state([m EXCEPT !.len = 0, !.resends = 0],
                          CEC_STATE_IDLE, level),
              EC_MKBP_CEC_SEND_OK)
  ELSE IF m.resends < CEC_MAX_RESENDS
       THEN enter_state([m EXCEPT !.resends = U8(m.resends + 1)],
                        CEC_STATE_INITIATOR_FREE_TIME, level)
       ELSE send_mkbp_event(
              enter_state([m EXCEPT !.len = 0], CEC_STATE_IDLE, level),
              EC_MKBP_CEC_SEND_FAILED)

\* case CEC_STATE_INITIATOR_ACK_VERIFY of cec_event_timeout
AckVerifyTimeout(m, level) ==
  IF m.ack # 0
  THEN IF msgt_is_eom(m, m.len) = 0
       THEN \* More data in this frame
            enter_state(m, CEC_STATE_INITIATOR_DATA_LOW, level)
       ELSE \* Transfer completed successfully
            send_mkbp_event(
              enter_state([m EXCEPT !.len = 0, !.resends = 0],
                          CEC_STATE_IDLE, level),
              EC_MKBP_CEC_SEND_OK)
  ELSE IF m.resends < CEC_MAX_RESENDS
       THEN \* Resend
            enter_state([m EXCEPT !.resends = U8(m.resends + 1)],
                        CEC_STATE_INITIATOR_FREE_TIME, level)
       ELSE \* Transfer failed
            send_mkbp_event(
              enter_state([m EXCEPT !.len = 0, !.resends = 0],
                          CEC_STATE_IDLE, level),
              EC_MKBP_CEC_SEND_FAILED)

\* Mutant of cec_event_timeout: an expiry in IDLE starts a frame.
cec_event_timeout_IdleRestarts(m, level) ==
  CASE m.state = CEC_STATE_IDLE ->
         enter_state(m, CEC_STATE_INITIATOR_FREE_TIME, level)
    [] m.state = CEC_STATE_INITIATOR_FREE_TIME ->
         enter_state(m, CEC_STATE_INITIATOR_START_LOW, level)
    [] m.state = CEC_STATE_INITIATOR_START_LOW ->
         enter_state(m, CEC_STATE_INITIATOR_START_HIGH, level)
    [] m.state = CEC_STATE_INITIATOR_START_HIGH ->
         enter_state(m, CEC_STATE_INITIATOR_HEADER_INIT_LOW, level)
    [] m.state = CEC_STATE_INITIATOR_HEADER_INIT_LOW ->
         enter_state(m, CEC_STATE_INITIATOR_HEADER_INIT_HIGH, level)
    [] m.state = CEC_STATE_INITIATOR_HEADER_INIT_HIGH ->
         LET m1 == msgt_inc_bit(m)
         IN IF m1.bit = 4
            THEN enter_state(m1, CEC_STATE_INITIATOR_HEADER_DEST_LOW, level)
            ELSE enter_state(m1, CEC_STATE_INITIATOR_HEADER_INIT_LOW, level)
    [] m.state = CEC_STATE_INITIATOR_HEADER_DEST_LOW ->
         enter_state(m, CEC_STATE_INITIATOR_HEADER_DEST_HIGH, level)
    [] m.state = CEC_STATE_INITIATOR_HEADER_DEST_HIGH ->
         LET m1 == msgt_inc_bit(m)
         IN IF m1.byte = 1
            THEN enter_state(m1, CEC_STATE_INITIATOR_EOM_LOW, level)
            ELSE enter_state(m1, CEC_STATE_INITIATOR_HEADER_DEST_LOW, level)
    [] m.state = CEC_STATE_INITIATOR_EOM_LOW ->
         enter_state(m, CEC_STATE_INITIATOR_EOM_HIGH, level)
    [] m.state = CEC_STATE_INITIATOR_EOM_HIGH ->
         enter_state(m, CEC_STATE_INITIATOR_ACK_LOW, level)
    [] m.state = CEC_STATE_INITIATOR_ACK_LOW ->
         enter_state(m, CEC_STATE_INITIATOR_ACK_HIGH, level)
    [] m.state = CEC_STATE_INITIATOR_ACK_HIGH ->
         enter_state(m, CEC_STATE_INITIATOR_ACK_VERIFY, level)
    [] m.state = CEC_STATE_INITIATOR_ACK_VERIFY ->
         AckVerifyTimeout(m, level)
    [] m.state = CEC_STATE_INITIATOR_DATA_LOW ->
         enter_state(m, CEC_STATE_INITIATOR_DATA_HIGH, level)
    [] m.state = CEC_STATE_INITIATOR_DATA_HIGH ->
         LET m1 == msgt_inc_bit(m)
         IN IF m1.bit = 0
            THEN enter_state(m1, CEC_STATE_INITIATOR_EOM_LOW, level)
            ELSE enter_state(m1, CEC_STATE_INITIATOR_DATA_LOW, level)

\* Mutant of cec_event_timeout: START_LOW goes to the first header bit.
cec_event_timeout_SkipStartHigh(m, level) ==
  CASE m.state = CEC_STATE_IDLE -> m
    [] m.state = CEC_STATE_INITIATOR_FREE_TIME ->
         enter_state(m, CEC_STATE_INITIATOR_START_LOW, level)
    [] m.state = CEC_STATE_INITIATOR_START_LOW ->
         enter_state(m, CEC_STATE_INITIATOR_HEADER_INIT_LOW, level)
    [] m.state = CEC_STATE_INITIATOR_START_HIGH ->
         enter_state(m, CEC_STATE_INITIATOR_HEADER_INIT_LOW, level)
    [] m.state = CEC_STATE_INITIATOR_HEADER_INIT_LOW ->
         enter_state(m, CEC_STATE_INITIATOR_HEADER_INIT_HIGH, level)
    [] m.state = CEC_STATE_INITIATOR_HEADER_INIT_HIGH ->
         LET m1 == msgt_inc_bit(m)
         IN IF m1.bit = 4
            THEN enter_state(m1, CEC_STATE_INITIATOR_HEADER_DEST_LOW, level)
            ELSE enter_state(m1, CEC_STATE_INITIATOR_HEADER_INIT_LOW, level)
    [] m.state = CEC_STATE_INITIATOR_HEADER_DEST_LOW ->
         enter_state(m, CEC_STATE_INITIATOR_HEADER_DEST_HIGH, level)
    [] m.state = CEC_STATE_INITIATOR_HEADER_DEST_HIGH ->
         LET m1 == msgt_inc_bit(m)
         IN IF m1.byte = 1
            THEN enter_state(m1, CEC_STATE_INITIATOR_EOM_LOW, level)
            ELSE enter_state(m1, CEC_STATE_INITIATOR_HEADER_DEST_LOW, level)
    [] m.state = CEC_STATE_INITIATOR_EOM_LOW ->
         enter_state(m, CEC_STATE_INITIATOR_EOM_HIGH, level)
    [] m.state = CEC_STATE_INITIATOR_EOM_HIGH ->
         enter_state(m, CEC_STATE_INITIATOR_ACK_LOW, level)
    [] m.state = CEC_STATE_INITIATOR_ACK_LOW ->
         enter_state(m, CEC_STATE_INITIATOR_ACK_HIGH, level)
    [] m.state = CEC_STATE_INITIATOR_ACK_HIGH ->
         enter_state(m, CEC_STATE_INITIATOR_ACK_VERIFY, level)
    [] m.state = CEC_STATE_INITIATOR_ACK_VERIFY ->
         AckVerifyTimeout(m, level)
    [] m.state = CEC_STATE_INITIATOR_DATA_LOW ->
         enter_state(m, CEC_STATE_INITIATOR_DATA_HIGH, level)
    [] m.state = CEC_STATE_INITIATOR_DATA_HIGH ->
         LET m1 == msgt_inc_bit(m)
         IN IF m1.bit = 0
            THEN enter_state(m1, CEC_STATE_INITIATOR_EOM_LOW, level)
            ELSE enter_state(m1, CEC_STATE_INITIATOR_DATA_LOW, level)

cec_event_timeout(m, level) ==
  CASE m.state = CEC_STATE_IDLE -> m
    [] m.state = CEC_STATE_INITIATOR_FREE_TIME ->
         enter_state(m, CEC_STATE_INITIATOR_START_LOW, level)
    [] m.state = CEC_STATE_INITIATOR_START_LOW ->
         enter_state(m, CEC_STATE_INITIATOR_START_HIGH, level)
    [] m.state = CEC_STATE_INITIATOR_START_HIGH ->
         enter_state(m, CEC_STATE_INITIATOR_HEADER_INIT_LOW, level)
    [] m.state = CEC_STATE_INITIATOR_HEADER_INIT_LOW ->
         enter_state(m, CEC_STATE_INITIATOR_HEADER_INIT_HIGH, level)
    [] m.state = CEC_STATE_INITIATOR_HEADER_INIT_HIGH ->
         LET m1 == msgt_inc_bit(m)
         IN IF m1.bit = 4
            THEN enter_state(m1, CEC_STATE_INITIATOR_HEADER_DEST_LOW, level)
            ELSE enter_state(m1, CEC_STATE_INITIATOR_HEADER_INIT_LOW, level)
    [] m.state = CEC_STATE_INITIATOR_HEADER_DEST_LOW ->
         enter_state(m, CEC_STATE_INITIATOR_HEADER_DEST_HIGH, level)
    [] m.state = CEC_STATE_INITIATOR_HEADER_DEST_HIGH ->
         LET m1 == msgt_inc_bit(m)
         IN IF m1.byte = 1
            THEN enter_state(m1, CEC_STATE_INITIATOR_EOM_LOW, level)
            ELSE enter_state(m1, CEC_STATE_INITIATOR_HEADER_DEST_LOW, level)
    [] m.state = CEC_STATE_INITIATOR_EOM_LOW ->
         enter_state(m, CEC_STATE_INITIATOR_EOM_HIGH, level)
    [] m.state = CEC_STATE_INITIATOR_EOM_HIGH ->
         enter_state(m, CEC_STATE_INITIATOR_ACK_LOW, level)
    [] m.state = CEC_STATE_INITIATOR_ACK_LOW ->
         enter_state(m, CEC_STATE_INITIATOR_ACK_HIGH, level)
    [] m.state = CEC_STATE_INITIATOR_ACK_HIGH ->
         enter_state(m, CEC_STATE_INITIATOR_ACK_VERIFY, level)
    [] m.state = CEC_STATE_INITIATOR_ACK_VERIFY ->
         AckVerifyTimeout(m, level)
    [] m.state = CEC_STATE_INITIATOR_DATA_LOW ->
         enter_state(m, CEC_STATE_INITIATOR_DATA_HIGH, level)
    [] m.state = CEC_STATE_INITIATOR_DATA_HIGH ->
         LET m1 == msgt_inc_bit(m)
         IN IF m1.bit = 0
            THEN enter_state(m1, CEC_STATE_INITIATOR_EOM_LOW, level)
            ELSE enter_state(m1, CEC_STATE_INITIATOR_DATA_LOW, level)

cec_event_tx(m, level) ==
  enter_state(m, CEC_STATE_INITIATOR_FREE_TIME, level)

\* ------------------------------------------------------------------------
\* Snapshot of the variables the interrupt handler works on
\* ------------------------------------------------------------------------
Snapshot ==
  [state |-> cec_state, buf |-> buf, bit |-> bit, byte |-> byte,
   len |-> len, resends |-> resends, ack |-> ack, events |-> cec_events,
   gpio |-> gpio_out, sample |-> line_sample, running |-> tmr1_running,
   cnt |-> tmr1_cnt, frames |-> tx_frames, ok |-> tx_ok,
   failed |-> tx_failed, seen_low |-> seen_low, seen_high |-> seen_high,
   trace |-> frame_bits, undelivered |-> undelivered]

Store(m) ==
  /\ cec_state' = m.state
  /\ buf' = m.buf
  /\ bit' = m.bit
  /\ byte' = m.byte
  /\ len' = m.len
  /\ resends' = m.resends
  /\ ack' = m.ack
  /\ cec_events' = m.events
  /\ gpio_out' = m.gpio
  /\ line_sample' = m.sample
  /\ tmr1_running' = m.running
  /\ tmr1_cnt' = m.cnt
  /\ tx_frames' = m.frames
  /\ tx_ok' = m.ok
  /\ tx_failed' = m.failed
  /\ seen_low' = m.seen_low
  /\ seen_high' = m.seen_high
  /\ frame_bits' = m.trace
  /\ undelivered' = m.undelivered

\* ------------------------------------------------------------------------
\* cec_isr: tc = timer 1 expired (TCPND), td = timer 2 expired (TDPND)
\* ------------------------------------------------------------------------
\* the handler's effect on the snapshot: the timeout event first, then the
\* start-of-transfer event
IsrResult(tc, td, level) ==
  LET m1 == IF tc THEN cec_event_timeout(Snapshot, level) ELSE Snapshot
  IN IF td THEN cec_event_tx(m1, level) ELSE m1

\* Mutant of cec_isr: timer 2 is not stopped when its event is handled.
cec_isr_NoStop(tc, td, level) ==
  /\ tc \/ td
  /\ tc => tmr1_running
  /\ td => tmr2_pending
  /\ UNCHANGED <<apb1_freq_div_10k, p80_vars,
                 task_vars, tx_admitted, redelivered>>
  /\ tmr2_pending' = tmr2_pending
  /\ \E m2 \in { IsrResult(tc, td, level) } : Store(m2)

cec_isr(tc, td, level) ==
  /\ tc \/ td
  /\ tc => tmr1_running
  /\ td => tmr2_pending
  /\ UNCHANGED <<apb1_freq_div_10k, p80_vars,
                 task_vars, tx_admitted, redelivered>>
  /\ tmr2_pending' = IF td THEN FALSE ELSE tmr2_pending
  /\ \E m2 \in { IsrResult(tc, td, level) } : Store(m2)

\* ------------------------------------------------------------------------
\* Host command EC_CMD_CEC_WRITE_MSG (task context)
\* ------------------------------------------------------------------------
\* Requests offered to the host command: every header of Headers with
\* every length 1..MaxLen, one message of the maximum length, and the two
\* sizes next to the valid range.  0x40 is initiator 4 to destination 0,
\* 0x4f is initiator 4 to the broadcast address; data bytes are 0x01.
Headers == {64, 79}

Msg(h, n) == [i \in 1..n |-> IF i = 1 THEN h ELSE 1]

ValidRequests ==
  { Msg(h, n) : h \in Headers, n \in 1..MaxLen }
    \cup { Msg(64, MAX_CEC_MSG_LEN) }

InvalidRequests == { Msg(64, n) : n \in {0, MAX_CEC_MSG_LEN + 1} }

Requests == ValidRequests \cup InvalidRequests

\* Mutants of hc_cec_write: the busy check of cec_send left out; the size
\* check of hc_cec_write left out.
hc_cec_write_NoBusyCheck(msg) ==
  /\ send_pc = "idle"
  /\ IF Len(msg) = 0 \/ Len(msg) > MAX_CEC_MSG_LEN
     THEN /\ ret' = "EC_RES_INVALID_PARAM"
          /\ UNCHANGED <<send_pc, send_msg, hist_vars>>
     ELSE /\ ret' = "NONE"
          /\ send_pc' = "set_len"
          /\ send_msg' = msg
          /\ tx_admitted' = TRUE
          /\ tx_frames' = 0
          /\ tx_ok' = 0
          /\ tx_failed' = 0
          /\ seen_low' = FALSE
          /\ seen_high' = FALSE
  /\ UNCHANGED <<tx_vars, cec_events, apb1_freq_div_10k, p80_vars,
                 hw_vars, obs_vars>>

hc_cec_write_NoSizeCheck(msg) ==
  /\ send_pc = "idle"
  /\ Len(msg) <= MAX_CEC_MSG_LEN
  /\ IF len # 0
     THEN /\ ret' = "EC_RES_BUSY"
          /\ UNCHANGED <<send_pc, send_msg, hist_vars>>
     ELSE /\ ret' = "NONE"
          /\ send_pc' = "set_len"
          /\ send_msg' = msg
          /\ tx_admitted' = TRUE
          /\ tx_frames' = 0
          /\ tx_ok' = 0
          /\ tx_failed' = 0
          /\ seen_low' = FALSE
          /\ seen_high' = FALSE
  /\ UNCHANGED <<tx_vars, cec_events, apb1_freq_div_10k, p80_vars,
                 hw_vars, obs_vars>>

\* hc_cec_write up to and including the busy check of cec_send
hc_cec_write(msg) ==
  /\ send_pc = "idle"
  /\ IF Len(msg) = 0 \/ Len(msg) > MAX_CEC_MSG_LEN
     THEN /\ ret' = "EC_RES_INVALID_PARAM"
          /\ UNCHANGED <<send_pc, send_msg, hist_vars>>
     ELSE IF len # 0
          THEN /\ ret' = "EC_RES_BUSY"
               /\ UNCHANGED <<send_pc, send_msg, hist_vars>>
          ELSE /\ ret' = "NONE"
               /\ send_pc' = "set_len"
               /\ send_msg' = msg
               /\ tx_admitted' = TRUE
               /\ tx_frames' = 0
               /\ tx_ok' = 0
               /\ tx_failed' = 0
               /\ seen_low' = FALSE
               /\ seen_high' = FALSE
  /\ UNCHANGED <<tx_vars, cec_events, apb1_freq_div_10k, p80_vars,
                 hw_vars, obs_vars>>

\* Mutant of cec_send_set_len: timer 2 is started before the copy.
cec_send_set_len_ArmsEarly ==
  /\ send_pc = "set_len"
  /\ len' = U8(Len(send_msg))
  /\ send_pc' = "memcpy"
  /\ tmr2_pending' = TRUE
  /\ UNCHANGED <<cec_state, buf, bit, byte, resends, ack, cec_events,
                 apb1_freq_div_10k, p80_vars,
                 gpio_out, line_sample, tmr1_running,
                 tmr1_cnt, send_msg, ret, hist_vars, obs_vars>>

\* cec_tx.len = len
cec_send_set_len ==
  /\ send_pc = "set_len"
  /\ len' = U8(Len(send_msg))
  /\ send_pc' = "memcpy"
  /\ UNCHANGED <<cec_state, buf, bit, byte, resends, ack, cec_events,
                 apb1_freq_div_10k, p80_vars,
                 hw_vars, send_msg, ret, hist_vars, obs_vars>>

\* Mutant of cec_send_memcpy: the message is not copied.
cec_send_memcpy_NoCopy ==
  /\ send_pc = "memcpy"
  /\ buf' = buf
  /\ send_pc' = "tmr2_start"
  /\ UNCHANGED <<cec_state, bit, byte, len, resends, ack, cec_events,
                 apb1_freq_div_10k, p80_vars,
                 hw_vars, send_msg, ret, hist_vars, obs_vars>>

\* memcpy(cec_tx.msgt.buf, msg, len)
cec_send_memcpy ==
  /\ send_pc = "memcpy"
  /\ buf' = [i \in 0..(MAX_CEC_MSG_LEN - 1) |->
               IF i < Len(send_msg) THEN send_msg[i + 1] ELSE buf[i]]
  /\ send_pc' = "tmr2_start"
  /\ UNCHANGED <<cec_state, bit, byte, len, resends, ack, cec_events,
                 apb1_freq_div_10k, p80_vars,
                 hw_vars, send_msg, ret, hist_vars, obs_vars>>

\* tmr2_start(0); return 0; and hc_cec_write returns EC_RES_SUCCESS
cec_send_tmr2_start ==
  /\ send_pc = "tmr2_start"
  /\ tmr2_pending' = TRUE
  /\ send_pc' = "idle"
  /\ send_msg' = <<>>
  /\ ret' = "EC_RES_SUCCESS"
  /\ UNCHANGED <<tx_vars, cec_events, apb1_freq_div_10k, p80_vars,
                 gpio_out,
                 line_sample, tmr1_running, tmr1_cnt, hist_vars, obs_vars>>

\* ------------------------------------------------------------------------
\* Event source EC_MKBP_EVENT_CEC (consumer context)
\* ------------------------------------------------------------------------
\* Mutant of cec_get_next_event: the flags are read and not cleared.
cec_get_next_event_NoClear ==
  /\ cec_events' = cec_events
  /\ undelivered' = BitClear(undelivered, cec_events)
  /\ redelivered' = (redelivered \/ BitOr(undelivered, cec_events) # undelivered)
  /\ UNCHANGED <<tx_vars, apb1_freq_div_10k, p80_vars,
                 hw_vars, task_vars, hist_vars,
                 frame_bits>>

\* event_out = atomic_read_clear(&cec_events): the payload handed to the
\* consumer is the value cec_events has before the step.  The observer
\* removes the returned flags from the undelivered ones and notes a flag
\* that is returned without being undelivered.
cec_get_next_event ==
  /\ cec_events' = 0
  /\ undelivered' = BitClear(undelivered, cec_events)
  /\ redelivered' = (redelivered \/ BitOr(undelivered, cec_events) # undelivered)
  /\ UNCHANGED <<tx_vars, apb1_freq_div_10k, p80_vars,
                 hw_vars, task_vars, hist_vars,
                 frame_bits>>

\* ------------------------------------------------------------------------
\* Initial state: static storage zeroed, then cec_init
\* ------------------------------------------------------------------------
InitWith(bases) ==
  /\ cec_state = CEC_STATE_IDLE
  /\ buf = [i \in 0..(MAX_CEC_MSG_LEN - 1) |-> 0]
  /\ bit = 0
  /\ byte = 0
  /\ len = 0
  /\ resends = 0
  /\ ack = 0
  /\ cec_events = 0
  /\ apb1_freq_div_10k \in bases
  /\ gpio_out = -1
  /\ line_sample = -1
  /\ tmr1_running = FALSE
  /\ tmr1_cnt = -1
  /\ tmr2_pending = FALSE
  /\ send_pc = "idle"
  /\ send_msg = <<>>
  /\ ret = "NONE"
  /\ tx_admitted = FALSE
  /\ tx_frames = 0
  /\ tx_ok = 0
  /\ tx_failed = 0
  /\ seen_low = FALSE
  /\ seen_high = FALSE
  /\ frame_bits = <<>>
  /\ undelivered = 0
  /\ redelivered = FALSE
  /\ history = [i \in 0..(HISTORY_LEN - 1) |-> 0]
  /\ writes = 0
  /\ scroll = 0
  /\ port80_print = <<>>
  /\ console = [cmd |-> "", vals |-> <<>>, done |-> TRUE]
  /\ p80_pc = "idle"
  /\ p80_head = 0
  /\ p80_i = 0
  /\ p80_written = <<>>
  /\ p80_raced = 0

Init == InitWith({SpecBasis})

Next ==
  \/ \E msg \in Requests : hc_cec_write(msg)
  \/ cec_send_set_len
  \/ cec_send_memcpy
  \/ cec_send_tmr2_start
  \/ \E tc \in BOOLEAN, td \in BOOLEAN, level \in LineLevels :
       cec_isr(tc, td, level)
  \/ cec_get_next_event

Spec == Init /\ [][Next]_vars

\* ------------------------------------------------------------------------
\* Fairness: every armed timer expires and its interrupt is served, and the
\* host task finishes a cec_send it has started.
\* ------------------------------------------------------------------------
TimerIsr == \E level \in LineLevels : cec_isr(TRUE, FALSE, level)

TriggerIsr == cec_isr(FALSE, TRUE, 0)

HostStep == cec_send_set_len \/ cec_send_memcpy \/ cec_send_tmr2_start

\* Requests of the fair specification: the short messages and the two
\* invalid sizes.
LiveRequests ==
  { Msg(h, n) : h \in Headers, n \in 1..MaxLen } \cup InvalidRequests

LiveNext ==
  \/ \E msg \in LiveRequests : hc_cec_write(msg)
  \/ cec_send_set_len
  \/ cec_send_memcpy
  \/ cec_send_tmr2_start
  \/ \E tc \in BOOLEAN, td \in BOOLEAN, level \in LineLevels :
       cec_isr(tc, td, level)
  \/ cec_get_next_event

FairSpec ==
  /\ Init /\ [][LiveNext]_vars
  /\ WF_vars(TimerIsr) /\ WF_vars(TriggerIsr) /\ WF_vars(HostStep)

\* ------------------------------------------------------------------------
\* Timing specification: the clock basis ranges over every quotient
\* clock_get_apb1_freq()/10000 from 0 to MaxTimingBasis, one message is
\* sent and every follower acknowledges.
\* ------------------------------------------------------------------------
TimingInit == InitWith(0..MaxTimingBasis)

TimingNext ==
  \/ hc_cec_write(Msg(64, 2))
  \/ cec_send_set_len
  \/ cec_send_memcpy
  \/ cec_send_tmr2_start
  \/ \E tc \in BOOLEAN, td \in BOOLEAN : cec_isr(tc, td, 0)

TimingSpec == TimingInit /\ [][TimingNext]_vars

\* ------------------------------------------------------------------------
\* Specification for the free times: a range of clock bases, one one-byte
\* message, every line level at the ACK sample so that frames are resent
\* ------------------------------------------------------------------------
FreeTimeInit == InitWith(0..MaxFreeTimeBasis)

FreeTimeNext ==
  \/ hc_cec_write(Msg(64, 1))
  \/ cec_send_set_len
  \/ cec_send_memcpy
  \/ cec_send_tmr2_start
  \/ \E tc, td \in BOOLEAN, level \in LineLevels : cec_isr(tc, td, level)

FreeTimeSpec == FreeTimeInit /\ [][FreeTimeNext]_vars

\* ------------------------------------------------------------------------
\* Port 80 history (src/common/port80.c).  Strings are sequences of
\* character codes.
\* ------------------------------------------------------------------------
tolower(c) == IF c \in 65..90 THEN c + 32 ELSE c

\* 0 when the strings are equal up to case, non-zero otherwise
strcasecmp(s1, s2) ==
  IF /\ Len(s1) = Len(s2)
     /\ \A k \in 1..Len(s1) : tolower(s1[k]) = tolower(s2[k])
  THEN 0 ELSE 1

\* "scroll"
Str_scroll == <<115, 99, 114, 111, 108, 108>>

\* Mutant of port_80_write: the value is stored one slot further.
port_80_write_OffByOne(data) ==
  /\ port80_print' = <<IF scroll # 0 THEN 10 ELSE 13, data>>
  /\ history' = [history EXCEPT ![(writes + 1) % HISTORY_LEN] = U8(data)]
  /\ writes' = writes + 1
  /\ p80_written' = Append(p80_written, data)
  /\ p80_raced' = IF p80_pc = "print" THEN p80_raced + 1 ELSE p80_raced
  /\ UNCHANGED <<scroll, console, p80_pc, p80_head, p80_i, cec_vars>>

\* port_80_write: prints the value after '\n' (scrolling) or '\r', stores
\* it in the history as a uint8_t and counts the write.
port_80_write(data) ==
  /\ port80_print' = <<IF scroll # 0 THEN 10 ELSE 13, data>>
  /\ history' = [history EXCEPT ![writes % HISTORY_LEN] = U8(data)]
  /\ writes' = writes + 1
  /\ p80_written' = Append(p80_written, data)
  /\ p80_raced' = IF p80_pc = "print" THEN p80_raced + 1 ELSE p80_raced
  /\ UNCHANGED <<scroll, console, p80_pc, p80_head, p80_i, cec_vars>>

\* command_port80 up to the start of the print loop.  argv holds the
\* arguments after the command name, so argc is Len(argv) + 1.
\* "port80 scroll" toggles scroll and reports it; otherwise head and tail
\* are taken from writes and the loop starts with i = tail.
command_port80(argv) ==
  /\ p80_pc = "idle"
  /\ IF Len(argv) > 0 /\ strcasecmp(argv[1], Str_scroll) = 0
     THEN /\ scroll' = (IF scroll = 0 THEN 1 ELSE 0)
          /\ console' = [cmd |-> "scroll", vals |-> <<scroll'>>,
                         done |-> TRUE]
          /\ UNCHANGED <<p80_pc, p80_head, p80_i, p80_raced>>
     ELSE /\ p80_head' = writes
          /\ p80_i' = (IF writes > HISTORY_LEN
                       THEN writes - HISTORY_LEN ELSE 0)
          /\ console' = [cmd |-> "history", vals |-> <<>>, done |-> FALSE]
          /\ p80_pc' = "print"
          /\ p80_raced' = 0
          /\ UNCHANGED scroll
  /\ UNCHANGED <<history, writes, port80_print, p80_written, cec_vars>>

\* One test of the loop condition of command_port80: either one iteration
\* (ccprintf of history[i % ARRAY_SIZE(history)], i++), or the end of the
\* loop with ccputs(" <--new\n") and the return.
command_port80_print ==
  /\ p80_pc = "print"
  /\ IF p80_i < p80_head
     THEN /\ console' = [console EXCEPT
                           !.vals = Append(@, history[p80_i % HISTORY_LEN])]
          /\ p80_i' = p80_i + 1
          /\ UNCHANGED p80_pc
     ELSE /\ console' = [console EXCEPT !.done = TRUE]
          /\ p80_pc' = "idle"
          /\ UNCHANGED p80_i
  /\ UNCHANGED <<history, writes, scroll, port80_print, p80_head,
                 p80_written, p80_raced, cec_vars>>

\* Values written to port 80: a run of bytes that starts at one of
\* Port80Firsts and goes up by one of Port80Strides, modulo 256.
Port80Firsts == {0, 250}

Port80Strides == {1, 3}

Port80Data ==
  IF p80_written = <<>> THEN Port80Firsts
  ELSE IF Len(p80_written) = 1
       THEN { U8(p80_written[1] + d) : d \in Port80Strides }
       ELSE { U8(2 * p80_written[Len(p80_written)]
                 - p80_written[Len(p80_written) - 1] + 256) }

\* Arguments given to the console command: none, "scroll", "ScRolL",
\* "scrol".
Port80Argv ==
  { <<>>, <<Str_scroll>>, << <<83, 99, 82, 111, 108, 76>> >>,
    << <<115, 99, 114, 111, 108>> >> }

Port80Next ==
  \/ \E data \in Port80Data :
       /\ writes < MaxWrites
       /\ p80_pc = "print" => p80_raced < MaxRacingWrites
       /\ port_80_write(data)
  \/ \E argv \in Port80Argv : command_port80(argv)
  \/ command_port80_print

Port80Spec == Init /\ [][Port80Next]_vars

\* ------------------------------------------------------------------------
\* Vocabulary of the properties
\* ------------------------------------------------------------------------
Broadcast == buf[0] % 16 = CEC_BROADCAST_ADDR

\* the transfer admitted last has reached its terminal transition
TransferDone == tx_admitted /\ send_pc = "idle" /\ len = 0

\* at least one ACK bit of the transfer was sampled, and every sample was an
\* acknowledgment (low when directly addressed, high for a broadcast)
AllSamplesAck ==
  /\ seen_low \/ seen_high
  /\ IF Broadcast THEN ~seen_low ELSE ~seen_high

\* ... every sample was a negative acknowledgment
AllSamplesNack ==
  /\ seen_low \/ seen_high
  /\ IF Broadcast THEN ~seen_high ELSE ~seen_low

\* ------------------------------------------------------------------------
\* Properties
\* ------------------------------------------------------------------------

\* C1: when every ACK sample of a transfer is an acknowledgment (line low
\* for a direct destination, line high for destination 15), no resend and no
\* outcome happens while the transfer runs, and once it has ended the state
\* machine is idle with length 0, resend counter 0, exactly one send-ok
\* outcome and no send-failed outcome.
C1_AllAckedEndsOk ==
  (tx_admitted /\ AllSamplesAck) =>
     /\ resends = 0
     /\ tx_failed = 0
     /\ tx_frames = 1
     /\ IF TransferDone
        THEN cec_state = CEC_STATE_IDLE /\ len = 0 /\ tx_ok = 1
        ELSE tx_ok = 0

C1_Witness ==
  /\ TransferDone
  /\ AllSamplesAck
  /\ Broadcast
  /\ tx_ok = 1
  /\ cec_state = CEC_STATE_IDLE

\* C2: when every ACK sample of a transfer is a negative acknowledgment,
\* the transfer has entered START_LOW exactly 1 + CEC_MAX_RESENDS times when
\* it ends, it ends with exactly one send-failed outcome and no send-ok
\* outcome, and the resend counter is 0 from the terminal transition on; no
\* outcome is recorded before that.
C2_AllNackedFailsAfterSixFrames ==
  (tx_admitted /\ AllSamplesNack) =>
     /\ tx_ok = 0
     /\ IF TransferDone
        THEN /\ tx_frames = 1 + CEC_MAX_RESENDS
             /\ tx_failed = 1
             /\ resends = 0
             /\ cec_state = CEC_STATE_IDLE
        ELSE /\ tx_failed = 0
             /\ tx_frames <= 1 + CEC_MAX_RESENDS

C2_Witness ==
  /\ TransferDone
  /\ AllSamplesNack
  /\ tx_frames = 6
  /\ tx_failed = 1
  /\ resends = 0

\* C3: a host write of a valid size issued while the length is not 0
\* returns EC_RES_BUSY and leaves the message bytes, the length, the cursor,
\* the resend counter and the state of the state machine unchanged.
C3_BusySendChangesNothing ==
  [][\A msg \in ValidRequests :
       (len # 0 /\ hc_cec_write(msg)) =>
          /\ ret' = "EC_RES_BUSY"
          /\ send_pc' = "idle"
          /\ UNCHANGED <<buf, len, bit, byte, resends, cec_state>>]_vars

C3_Witness ==
  /\ ret = "EC_RES_BUSY"
  /\ len # 0
  /\ cec_state = CEC_STATE_INITIATOR_DATA_HIGH

\* C4: with every armed timer expiring, every admitted transfer reaches
\* its terminal transition: the state machine is idle again with exactly
\* one outcome recorded, whatever the ACK samples were; no state other than
\* idle is occupied for ever, and a running transfer has no outcome yet.
C4_EveryTransferTerminates ==
  /\ (tx_admitted /\ ~TransferDone)
        ~> (TransferDone /\ cec_state = CEC_STATE_IDLE
              /\ tx_ok + tx_failed = 1)
  /\ (cec_state # CEC_STATE_IDLE) ~> (cec_state = CEC_STATE_IDLE)
  /\ [](tx_admitted =>
          tx_ok + tx_failed = (IF TransferDone THEN 1 ELSE 0))

C4_Witness ==
  /\ TransferDone
  /\ cec_state = CEC_STATE_IDLE
  /\ tx_failed = 1
  /\ seen_low
  /\ seen_high

\* C5: in ACK_VERIFY with a broadcast header (destination nibble 15) the
\* ack flag is set exactly when the line was sampled high and clear exactly
\* when it was sampled low.
C5_BroadcastAckInverted ==
  (cec_state = CEC_STATE_INITIATOR_ACK_VERIFY /\ Broadcast) =>
     /\ line_sample \in {0, 1}
     /\ (ack # 0) <=> (line_sample = 1)
     /\ (ack = 0) <=> (line_sample = 0)

C5_Witness ==
  /\ cec_state = CEC_STATE_INITIATOR_ACK_VERIFY
  /\ Broadcast
  /\ line_sample = 0
  /\ ack = 0

\* C6: in ACK_VERIFY with a direct header (destination nibble other than
\* 15) the ack flag is set exactly when the line was sampled low.
C6_DirectAckOnLow ==
  (cec_state = CEC_STATE_INITIATOR_ACK_VERIFY /\ ~Broadcast) =>
     /\ line_sample \in {0, 1}
     /\ (ack # 0) <=> (line_sample = 0)

C6_Witness ==
  /\ cec_state = CEC_STATE_INITIATOR_ACK_VERIFY
  /\ ~Broadcast
  /\ line_sample = 1
  /\ ack = 0
  /\ byte = 2

\* C7 as stated: for any clock basis the data-one low time is strictly
\* shorter than the data-zero low time and the data-one high time strictly
\* longer than the data-zero high time.
C7_AnyBasis ==
  /\ DATA_LOW(1) < DATA_LOW(0)
  /\ DATA_HIGH(1) > DATA_HIGH(0)

\* C7 as amended: the strict orderings hold for every clock basis other
\* than 0.
C7_NonZeroBasis ==
  apb1_freq_div_10k # 0 =>
     /\ DATA_LOW(1) < DATA_LOW(0)
     /\ DATA_HIGH(1) > DATA_HIGH(0)

C7_Witness ==
  /\ apb1_freq_div_10k = 150
  /\ cec_state = CEC_STATE_INITIATOR_DATA_LOW
  /\ msgt_get_bit(Snapshot) # 0
  /\ tmr1_cnt = DATA_LOW(1)
  /\ tmr1_cnt < DATA_LOW(0)

\* C8: the resend counter stays within 0..CEC_MAX_RESENDS, and it grows
\* only by one, only in the step that leaves ACK_VERIFY for FREE_TIME with
\* the ack flag clear.
C8_ResendsBounded ==
  /\ [](resends \in 0..CEC_MAX_RESENDS)
  /\ [][resends' > resends =>
          /\ cec_state = CEC_STATE_INITIATOR_ACK_VERIFY
          /\ ack = 0
          /\ resends' = resends + 1
          /\ cec_state' = CEC_STATE_INITIATOR_FREE_TIME]_vars

C8_Witness ==
  /\ resends = 5
  /\ cec_state = CEC_STATE_INITIATOR_FREE_TIME

\* C9: the resend counter is 0 whenever no transfer is in progress, from
\* the admission of a send until its start trigger is consumed, and in the
\* step from idle to FREE_TIME, which arms the new-initiator free time.
C9_NewTransferStartsAtZero ==
  /\ []((len = 0 \/ send_pc # "idle" \/ tmr2_pending) => resends = 0)
  /\ [][(cec_state = CEC_STATE_IDLE
           /\ cec_state' = CEC_STATE_INITIATOR_FREE_TIME) =>
          /\ resends = 0
          /\ resends' = 0
          /\ tmr1_cnt' = FREE_TIME_NI]_vars

C9_Witness ==
  /\ cec_state = CEC_STATE_INITIATOR_FREE_TIME
  /\ cec_events = EC_MKBP_CEC_SEND_FAILED
  /\ tx_frames = 0
  /\ resends = 0
  /\ tmr1_cnt = FREE_TIME_NI

\* C10: a state machine that is not idle has a message of length greater
\* than 0, and while the length is 0 the state machine is idle and no start
\* trigger is pending.
C10_InProgressIffLength ==
  /\ cec_state # CEC_STATE_IDLE => len > 0
  /\ len = 0 => (cec_state = CEC_STATE_IDLE /\ ~tmr2_pending)

C10_Witness ==
  /\ len = 0
  /\ cec_state = CEC_STATE_IDLE
  /\ tx_ok = 1
  /\ send_pc = "idle"
  /\ tmr1_running

\* C11: on the ACK_VERIFY timeout with the ACK missing and the resend
\* counter below 5, the counter goes up by one and the state machine enters
\* FREE_TIME with the message bytes and the length unchanged and the cursor
\* at {byte 0, bit 0}.
C11_ResendResetsCursorInFreeTime ==
  [][(cec_state = CEC_STATE_INITIATOR_ACK_VERIFY
        /\ cec_state' # cec_state
        /\ ack = 0 /\ resends < CEC_MAX_RESENDS) =>
       /\ resends' = resends + 1
       /\ cec_state' = CEC_STATE_INITIATOR_FREE_TIME
       /\ UNCHANGED <<buf, len>>
       /\ bit' = 0 /\ byte' = 0]_vars

\* C11 as the code has it: the same step leaves the cursor where the failed
\* ACK was sampled, and the cursor is set to {byte 0, bit 0} by the step
\* that leaves FREE_TIME for START_LOW.
C11_ResendResetsCursorInStartLow ==
  /\ [][(cec_state = CEC_STATE_INITIATOR_ACK_VERIFY
           /\ cec_state' # cec_state
           /\ ack = 0 /\ resends < CEC_MAX_RESENDS) =>
          /\ resends' = resends + 1
          /\ cec_state' = CEC_STATE_INITIATOR_FREE_TIME
          /\ tmr1_cnt' = FREE_TIME_RS
          /\ UNCHANGED <<buf, len, bit, byte>>
          /\ byte' >= 1]_vars
  /\ [][(cec_state = CEC_STATE_INITIATOR_FREE_TIME
           /\ cec_state' # cec_state) =>
          /\ cec_state' = CEC_STATE_INITIATOR_START_LOW
          /\ bit' = 0 /\ byte' = 0
          /\ UNCHANGED <<buf, len, resends>>]_vars

C11_Witness ==
  /\ cec_state = CEC_STATE_INITIATOR_FREE_TIME
  /\ resends = 2
  /\ len = 2
  /\ bit = 0 /\ byte = 2
  /\ tmr1_cnt = FREE_TIME_RS

\* C12: once a transfer has failed with its resends used up, the failure
\* has been recorded exactly once (by the ACK_VERIFY timeout taken with the
\* resend counter at 5, which sets the send-failed flag), no send-ok is
\* recorded, the state machine is idle with length 0 and resend counter 0,
\* and a send of a valid message is accepted instead of answered busy.
C12_FailureRecordedOnceThenAccepts ==
  /\ [](tx_failed # 0 =>
          /\ tx_failed = 1
          /\ tx_ok = 0
          /\ tx_frames = CEC_MAX_RESENDS + 1
          /\ cec_state = CEC_STATE_IDLE
          /\ len = 0
          /\ resends = 0)
  /\ [][(tx_failed' # tx_failed /\ tx_failed' # 0) =>
          /\ cec_state = CEC_STATE_INITIATOR_ACK_VERIFY
          /\ ack = 0
          /\ resends = CEC_MAX_RESENDS
          /\ tx_failed' = 1
          /\ cec_events' = BitOr(cec_events, EC_MKBP_CEC_SEND_FAILED)]_vars
  /\ [][\A msg \in ValidRequests :
          (tx_failed = 1 /\ hc_cec_write(msg)) =>
            /\ ret' # "EC_RES_BUSY"
            /\ send_pc' = "set_len"
            /\ send_msg' = msg]_vars

C12_Witness ==
  /\ send_pc = "set_len"
  /\ Len(send_msg) = MAX_CEC_MSG_LEN
  /\ cec_events = EC_MKBP_CEC_SEND_FAILED
  /\ cec_state = CEC_STATE_IDLE
  /\ len = 0

\* C13: on the ACK_VERIFY timeout with the ACK present: when the cursor is
\* not at the end of the message (bit 0 and byte = length) the state machine
\* enters DATA_LOW with length, resend counter and recorded outcomes
\* unchanged; when it is, the length and the resend counter become 0, the
\* state machine enters idle and exactly the send-ok outcome is recorded.
C13_AckedContinuesOrCompletes ==
  [][(cec_state = CEC_STATE_INITIATOR_ACK_VERIFY
        /\ cec_state' # cec_state
        /\ ack # 0) =>
       IF bit = 0 /\ byte = len
       THEN /\ cec_state' = CEC_STATE_IDLE
            /\ len' = 0
            /\ resends' = 0
            /\ cec_events' = BitOr(cec_events, EC_MKBP_CEC_SEND_OK)
            /\ tx_ok' = tx_ok + 1
            /\ tx_failed' = tx_failed
       ELSE /\ cec_state' = CEC_STATE_INITIATOR_DATA_LOW
            /\ UNCHANGED <<len, resends, cec_events, tx_ok, tx_failed,
                           buf, bit, byte>>]_vars

C13_Witness ==
  /\ cec_state = CEC_STATE_IDLE
  /\ TransferDone
  /\ tx_ok = 1
  /\ tx_frames = 3
  /\ resends = 0
  /\ cec_events = EC_MKBP_CEC_SEND_OK

\* C14: while the state machine is in FREE_TIME the count armed on entry is
\* 5 nominal bit periods when the resend counter is 0 and 3 nominal bit
\* periods when it is greater than 0, and for every clock basis other than
\* 0 the new-initiator free time is strictly longer than the resend free
\* time.
C14_FreeTimeByResends ==
  /\ cec_state = CEC_STATE_INITIATOR_FREE_TIME =>
       /\ tmr1_running
       /\ tmr1_cnt = IF resends = 0 THEN 5 * APB1_TICKS(2400)
                     ELSE 3 * APB1_TICKS(2400)
  /\ apb1_freq_div_10k # 0 => FREE_TIME_NI > FREE_TIME_RS

C14_Witness ==
  /\ cec_state = CEC_STATE_INITIATOR_FREE_TIME
  /\ resends = 3
  /\ apb1_freq_div_10k = MaxFreeTimeBasis
  /\ tmr1_cnt = 3 * APB1_TICKS(2400)
  /\ tmr1_cnt < FREE_TIME_NI

\* The k-th bit period of a frame of the message in the buffer: the start
\* bit, then for byte 0, 1, ... its bits from bit 7 down to bit 0, an EOM
\* bit that is 1 for the last byte only, and the ACK slot.
FrameSymbol(k) ==
  IF k = 1 THEN "S"
  ELSE LET i == (k - 2) \div 10
           pos == (k - 2) % 10
       IN IF pos < 8
          THEN IF (buf[i] \div Pow2(7 - pos)) % 2 = 1 THEN "1" ELSE "0"
          ELSE IF pos = 8
               THEN IF i = len - 1 THEN "1" ELSE "0"
               ELSE "A"

\* The number of bit periods completed (low and high time both started)
\* when the state machine is in a state of a frame.
PeriodsDone ==
  CASE cec_state = CEC_STATE_INITIATOR_START_LOW -> 0
    [] cec_state = CEC_STATE_INITIATOR_START_HIGH -> 1
    [] cec_state \in { CEC_STATE_INITIATOR_HEADER_INIT_LOW,
                       CEC_STATE_INITIATOR_HEADER_DEST_LOW,
                       CEC_STATE_INITIATOR_DATA_LOW } -> 1 + 10 * byte + bit
    [] cec_state \in { CEC_STATE_INITIATOR_HEADER_INIT_HIGH,
                       CEC_STATE_INITIATOR_HEADER_DEST_HIGH,
                       CEC_STATE_INITIATOR_DATA_HIGH } -> 2 + 10 * byte + bit
    [] cec_state = CEC_STATE_INITIATOR_EOM_LOW -> 10 * byte - 1
    [] cec_state \in { CEC_STATE_INITIATOR_EOM_HIGH,
                       CEC_STATE_INITIATOR_ACK_LOW } -> 10 * byte
    [] cec_state \in { CEC_STATE_INITIATOR_ACK_HIGH,
                       CEC_STATE_INITIATOR_ACK_VERIFY } -> 10 * byte + 1
    [] OTHER -> 0

\* C15: in every state of a frame the bit periods driven so far are the
\* first ones of: one start bit, then for each message byte in order its 8
\* bits most-significant first, an EOM bit that is 1 exactly for the last
\* byte, and an ACK slot with the data-one low time; a frame whose ACKs all
\* succeeded has driven all 1 + 10 * length of them when its last ACK is
\* verified.
C15_FrameBitSequence ==
  cec_state \notin { CEC_STATE_IDLE, CEC_STATE_INITIATOR_FREE_TIME } =>
    /\ Len(frame_bits) = PeriodsDone
    /\ Len(frame_bits) <= 1 + 10 * len
    /\ \A k \in 1..Len(frame_bits) : frame_bits[k] = FrameSymbol(k)
    /\ (cec_state = CEC_STATE_INITIATOR_ACK_VERIFY /\ ack # 0
          /\ byte = len) => Len(frame_bits) = 1 + 10 * len

C15_Witness ==
  /\ cec_state = CEC_STATE_INITIATOR_ACK_VERIFY
  /\ ack # 0
  /\ byte = len
  /\ frame_bits = << "S",
                     "0", "1", "0", "0", "1", "1", "1", "1", "0", "A",
                     "0", "0", "0", "0", "0", "0", "0", "1", "1", "A" >>

\* C16: in every reachable state the bit offset of the cursor lies in the
\* half-open interval [0,7), that is in 0..6.
C16_BitOffsetBelowSeven ==
  bit \in 0..6

\* C16 as the code has it: the bit offset lies in 0..7, and 7 is reached
\* for the last bit of every byte.
C16_BitOffsetBelowEight ==
  /\ bit \in 0..7
  /\ cec_state \in { CEC_STATE_INITIATOR_EOM_LOW, CEC_STATE_INITIATOR_EOM_HIGH,
                      CEC_STATE_INITIATOR_ACK_LOW, CEC_STATE_INITIATOR_ACK_HIGH,
                      CEC_STATE_INITIATOR_ACK_VERIFY,
                      CEC_STATE_INITIATOR_FREE_TIME } => bit = 0
  /\ cec_state \in { CEC_STATE_INITIATOR_HEADER_INIT_LOW,
                      CEC_STATE_INITIATOR_HEADER_INIT_HIGH } => bit \in 0..3
  /\ cec_state \in { CEC_STATE_INITIATOR_HEADER_DEST_LOW,
                      CEC_STATE_INITIATOR_HEADER_DEST_HIGH } => bit \in 4..7

C16_Witness ==
  /\ bit = 7
  /\ byte = MAX_CEC_MSG_LEN - 1
  /\ cec_state = CEC_STATE_INITIATOR_DATA_HIGH

\* C17: in every reachable state that is not idle the byte offset of the
\* cursor is at most the message length, which is in 1..16, so the byte
\* offset never exceeds the 16-byte buffer; a bit is read from the buffer
\* (LOW and HIGH states of header and data bits) only at a byte offset
\* below the length.
C17_ByteOffsetWithinLength ==
  cec_state # CEC_STATE_IDLE =>
    /\ len \in 1..MAX_CEC_MSG_LEN
    /\ byte \in 0..len
    /\ cec_state \in { CEC_STATE_INITIATOR_HEADER_INIT_LOW,
                        CEC_STATE_INITIATOR_HEADER_INIT_HIGH,
                        CEC_STATE_INITIATOR_HEADER_DEST_LOW,
                        CEC_STATE_INITIATOR_HEADER_DEST_HIGH,
                        CEC_STATE_INITIATOR_DATA_LOW,
                        CEC_STATE_INITIATOR_DATA_HIGH } => byte < len

C17_Witness ==
  /\ cec_state = CEC_STATE_INITIATOR_ACK_VERIFY
  /\ len = MAX_CEC_MSG_LEN
  /\ byte = MAX_CEC_MSG_LEN

\* C18: the cursor is {byte 0, bit 0} in every idle state and throughout
\* the start bit of every frame, fresh or resent (START_LOW is entered from
\* FREE_TIME only), so the first data bit period of every frame, entered
\* from START_HIGH, is armed for bit 7 of the header byte.
C18_CursorZeroAtIdleAndFrameStart ==
  /\ [](cec_state \in { CEC_STATE_IDLE, CEC_STATE_INITIATOR_START_LOW,
                         CEC_STATE_INITIATOR_START_HIGH } =>
          bit = 0 /\ byte = 0)
  /\ [][(cec_state' # cec_state
           /\ cec_state' = CEC_STATE_INITIATOR_START_LOW) =>
          /\ cec_state = CEC_STATE_INITIATOR_FREE_TIME
          /\ bit' = 0 /\ byte' = 0]_vars
  /\ [][(cec_state = CEC_STATE_INITIATOR_START_HIGH
           /\ cec_state' # cec_state) =>
          /\ cec_state' = CEC_STATE_INITIATOR_HEADER_INIT_LOW
          /\ bit' = 0 /\ byte' = 0
          /\ tmr1_cnt' = IF buf[0] >= 128 THEN DATA_ONE_LOW
                          ELSE DATA_ZERO_LOW]_vars

C18_Witness ==
  /\ cec_state = CEC_STATE_INITIATOR_START_LOW
  /\ resends = 1
  /\ len = 2
  /\ bit = 0 /\ byte = 0
  /\ tx_frames = 2

\* What msgt_get_bit returns for the buffer of the current state when the
\* cursor is at byte offset i, bit offset b.
ReadBitAt(i, b) ==
  msgt_get_bit([buf |-> buf, byte |-> i, bit |-> b, len |-> len])

\* C19: while a message is declared, reading the current bit at a byte
\* offset greater than or equal to the declared length returns 0.
C19_ZeroPastLength ==
  cec_state # CEC_STATE_IDLE =>
    \A i \in 0..MAX_CEC_MSG_LEN, b \in 0..7 :
      i >= len => ReadBitAt(i, b) = 0

\* C19 as the code has it: the read returns 0 at a byte offset greater
\* than or equal to the buffer size 16; below 16 it returns the addressed
\* bit of the buffer byte (mask 1 << (7 - bit)), whatever the declared
\* length is.
C19_ZeroPastBuffer ==
  /\ \A i \in { MAX_CEC_MSG_LEN, MAX_CEC_MSG_LEN + 1, 255 }, b \in 0..7 :
       ReadBitAt(i, b) = 0
  /\ \A i \in 0..(MAX_CEC_MSG_LEN - 1), b \in 0..7 :
       ReadBitAt(i, b) =
         IF (buf[i] \div Pow2(7 - b)) % 2 = 1 THEN Pow2(7 - b) ELSE 0

C19_Witness ==
  /\ cec_state = CEC_STATE_INITIATOR_HEADER_INIT_LOW
  /\ len = 1
  /\ ReadBitAt(1, 7) # 0
  /\ ReadBitAt(MAX_CEC_MSG_LEN, 7) = 0

\* C20: under every interleaving of terminal transitions and drains, the
\* flags a drain would return are exactly the outcomes recorded and not yet
\* returned by a drain (none lost, none returned a second time); a flag
\* appears only by a terminal transition, which adds the flag of its
\* outcome to the ones pending; so a drain that follows a drain with no
\* terminal transition in between returns no flag.
C20_OutcomesDeliveredOnce ==
  /\ [](~redelivered /\ undelivered = cec_events)
  /\ [][(tx_ok' + tx_failed' > tx_ok + tx_failed) =>
          /\ tx_ok' + tx_failed' = tx_ok + tx_failed + 1
          /\ cec_state = CEC_STATE_INITIATOR_ACK_VERIFY
          /\ cec_state' = CEC_STATE_IDLE
          /\ cec_events' =
               BitOr(cec_events, IF tx_ok' > tx_ok THEN EC_MKBP_CEC_SEND_OK
                                 ELSE EC_MKBP_CEC_SEND_FAILED)]_vars
  /\ [][(cec_events' # cec_events) =>
          \/ tx_ok' + tx_failed' > tx_ok + tx_failed
          \/ cec_events' = 0 /\ undelivered' = 0 /\ UNCHANGED tx_vars]_vars

C20_Witness ==
  /\ TransferDone
  /\ tx_failed = 1
  /\ cec_events = 0
  /\ undelivered = 0
  /\ ~redelivered

\* A step in which a drain returns at least one flag: recorded outcomes
\* stop being undelivered and no transfer ends or is admitted.
DrainStep ==
  /\ undelivered' # undelivered
  /\ tx_ok' = tx_ok
  /\ tx_failed' = tx_failed

\* C21: every drain returns none, send-ok or send-failed, never a value
\* with both flags, and leaves the pending flags empty.
C21_DrainReturnsOneOutcome ==
  [][DrainStep =>
       /\ cec_events \in { EC_MKBP_CEC_SEND_OK, EC_MKBP_CEC_SEND_FAILED }
       /\ cec_events' = 0]_vars

\* C21 as the code has it: a drain returns the whole set of pending flags,
\* which is every outcome recorded since the drain before it: send-ok,
\* send-failed, or both when transfers ended both ways with no drain in
\* between; it leaves the pending flags empty.
C21_DrainReturnsFlagSet ==
  /\ [][DrainStep =>
          /\ cec_events \in { EC_MKBP_CEC_SEND_OK, EC_MKBP_CEC_SEND_FAILED,
                               EC_MKBP_CEC_SEND_OK + EC_MKBP_CEC_SEND_FAILED }
          /\ cec_events = undelivered
          /\ cec_events' = 0
          /\ undelivered' = 0]_vars
  /\ [][cec_get_next_event => cec_events' = 0]_vars

C21_Witness ==
  /\ cec_events = EC_MKBP_CEC_SEND_OK + EC_MKBP_CEC_SEND_FAILED
  /\ undelivered = cec_events
  /\ TransferDone
  /\ tx_failed = 1
  /\ tx_ok = 0

\* C22: the start trigger is never pending while the state machine is not
\* idle; the step that consumes it is taken in idle and enters FREE_TIME;
\* and the state machine leaves idle only by that step, with a message
\* declared.
C22_TriggerConsumedOnlyInIdle ==
  /\ [](tmr2_pending => cec_state = CEC_STATE_IDLE /\ len # 0)
  /\ [][(tmr2_pending /\ ~tmr2_pending') =>
          /\ cec_state = CEC_STATE_IDLE
          /\ cec_state' = CEC_STATE_INITIATOR_FREE_TIME]_vars
  /\ [][(cec_state = CEC_STATE_IDLE /\ cec_state' # cec_state) =>
          /\ tmr2_pending /\ ~tmr2_pending'
          /\ cec_state' = CEC_STATE_INITIATOR_FREE_TIME
          /\ UNCHANGED <<buf, len, bit, byte, resends>>]_vars

C22_Witness ==
  /\ cec_state = CEC_STATE_INITIATOR_FREE_TIME
  /\ ~tmr2_pending
  /\ tx_frames = 0
  /\ len = MAX_CEC_MSG_LEN
  /\ cec_events = EC_MKBP_CEC_SEND_OK

\* C23: the start trigger is armed only by the last step of an accepted
\* send and is disarmed by the step that consumes it, which is the only way
\* from idle to FREE_TIME and happens once the trigger is armed; every
\* other entry to FREE_TIME comes from ACK_VERIFY and counts a resend.
C23_OneStartPerSend ==
  /\ [][(~tmr2_pending /\ tmr2_pending') =>
          /\ send_pc = "tmr2_start" /\ send_pc' = "idle"
          /\ ret' = "EC_RES_SUCCESS"]_vars
  /\ [][(cec_state # CEC_STATE_INITIATOR_FREE_TIME
           /\ cec_state' = CEC_STATE_INITIATOR_FREE_TIME) =>
          \/ /\ cec_state = CEC_STATE_IDLE
             /\ tmr2_pending /\ ~tmr2_pending'
             /\ resends' = 0
             /\ tx_frames' = 0
          \/ /\ cec_state = CEC_STATE_INITIATOR_ACK_VERIFY
             /\ resends' = resends + 1
             /\ tx_frames' >= 1
             /\ UNCHANGED tmr2_pending]_vars
  /\ [][(tmr2_pending /\ ~tmr2_pending') =>
          /\ cec_state = CEC_STATE_IDLE
          /\ cec_state' = CEC_STATE_INITIATOR_FREE_TIME]_vars
  /\ (tmr2_pending ~>
        (cec_state = CEC_STATE_INITIATOR_FREE_TIME /\ ~tmr2_pending
           /\ tx_frames = 0))

C23_Witness ==
  /\ cec_state = CEC_STATE_INITIATOR_FREE_TIME
  /\ ~tmr2_pending
  /\ resends = 1
  /\ tx_frames = 1
  /\ ret = "EC_RES_SUCCESS"

\* C24: the steps of an accepted send set the length to the size of the
\* message, copy its bytes to the start of the buffer (leaving the rest of
\* the buffer) and arm the start trigger, none of them changing the state,
\* the cursor or the resend counter; the state machine is idle from the
\* admission until the trigger is consumed, and the consuming step, taken
\* by the interrupt handler, enters FREE_TIME.
C24_SendArmsTriggerOnly ==
  /\ []((send_pc # "idle" \/ tmr2_pending) =>
          cec_state = CEC_STATE_IDLE /\ bit = 0 /\ byte = 0 /\ resends = 0)
  /\ [][(send_pc' # send_pc) =>
          UNCHANGED <<cec_state, bit, byte, resends, cec_events>>]_vars
  /\ [][(send_pc = "set_len" /\ send_pc' # send_pc) =>
          /\ len' = Len(send_msg)
          /\ UNCHANGED <<buf, tmr2_pending>>]_vars
  /\ [][(send_pc = "memcpy" /\ send_pc' # send_pc) =>
          /\ \A i \in 0..(MAX_CEC_MSG_LEN - 1) :
               buf'[i] = IF i < len THEN send_msg[i + 1] ELSE buf[i]
          /\ UNCHANGED <<len, tmr2_pending>>]_vars
  /\ [][(send_pc = "tmr2_start" /\ send_pc' # send_pc) =>
          /\ tmr2_pending'
          /\ ret' = "EC_RES_SUCCESS"
          /\ UNCHANGED <<buf, len>>]_vars
  /\ [][(tmr2_pending /\ ~tmr2_pending') =>
          /\ cec_state' = CEC_STATE_INITIATOR_FREE_TIME
          /\ UNCHANGED <<send_pc, ret, buf, len>>]_vars

C24_Witness ==
  /\ tmr2_pending
  /\ cec_state = CEC_STATE_IDLE
  /\ ret = "EC_RES_SUCCESS"
  /\ len = 2
  /\ buf[0] = 79
  /\ buf[1] = 1
  /\ tx_admitted /\ tx_frames = 0

\* C25: the state machine enters idle only from ACK_VERIFY, by the branch
\* for an acknowledged end of message or by the branch for a missing ACK
\* with the resends used up; and no step of the host command (any request,
\* any step of the send) or of the drain taken while the state machine is
\* not idle changes the state, the cursor, the resend counter, the length or
\* the buffer.
C25_NoCancellation ==
  /\ [][(cec_state # CEC_STATE_IDLE /\ cec_state' = CEC_STATE_IDLE) =>
          /\ cec_state = CEC_STATE_INITIATOR_ACK_VERIFY
          /\ \/ ack # 0 /\ bit = 0 /\ byte = len
             \/ ack = 0 /\ resends = CEC_MAX_RESENDS
          /\ len' = 0
          /\ cec_events' # 0]_vars
  /\ [][(/\ cec_state # CEC_STATE_IDLE
          /\ \/ \E msg \in Requests : hc_cec_write(msg)
             \/ cec_send_set_len
             \/ cec_send_memcpy
             \/ cec_send_tmr2_start
             \/ cec_get_next_event) =>
          UNCHANGED <<cec_state, bit, byte, resends, len, buf>>]_vars
  /\ [](cec_state # CEC_STATE_IDLE => send_pc = "idle")

C25_Witness ==
  /\ cec_state = CEC_STATE_INITIATOR_DATA_LOW
  /\ ret = "EC_RES_BUSY"
  /\ cec_events = 0
  /\ undelivered = 0
  /\ tx_admitted
  /\ byte = 1
  /\ len = 2

\* The count a state of a frame has armed, when a duration of us
\* microseconds is us * basis / d ticks with truncating division: the
\* durations are those of the timing table, chosen by the bit at the cursor
\* (header and data bits), by whether the cursor is at the end of the
\* message (EOM bit) and by the resend counter (free time).
BitAtCursor == (buf[byte] \div Pow2(7 - bit)) % 2

CountArmed(d) ==
  LET T(us) == (us * apb1_freq_div_10k) \div d
  IN CASE cec_state = CEC_STATE_INITIATOR_FREE_TIME ->
            IF resends = 0 THEN 5 * T(2400) ELSE 3 * T(2400)
       [] cec_state = CEC_STATE_INITIATOR_START_LOW -> T(3700)
       [] cec_state = CEC_STATE_INITIATOR_START_HIGH -> T(800)
       [] cec_state \in { CEC_STATE_INITIATOR_HEADER_INIT_LOW,
                          CEC_STATE_INITIATOR_HEADER_DEST_LOW,
                          CEC_STATE_INITIATOR_DATA_LOW } ->
            IF BitAtCursor = 1 THEN T(600) ELSE T(1500)
       [] cec_state \in { CEC_STATE_INITIATOR_HEADER_INIT_HIGH,
                          CEC_STATE_INITIATOR_HEADER_DEST_HIGH,
                          CEC_STATE_INITIATOR_DATA_HIGH } ->
            IF BitAtCursor = 1 THEN T(1800) ELSE T(900)
       [] cec_state = CEC_STATE_INITIATOR_EOM_LOW ->
            IF byte = len THEN T(600) ELSE T(1500)
       [] cec_state = CEC_STATE_INITIATOR_EOM_HIGH ->
            IF byte = len THEN T(1800) ELSE T(900)
       [] cec_state = CEC_STATE_INITIATOR_ACK_LOW -> T(600)
       [] cec_state = CEC_STATE_INITIATOR_ACK_HIGH -> T(1050) - T(600)
       [] cec_state = CEC_STATE_INITIATOR_ACK_VERIFY -> T(2400) - T(1050)
       [] OTHER -> tmr1_cnt

\* C26: the count armed in every state of a frame is computed as
\* ticks = microseconds * basis / 10000 with truncating division, basis the
\* stored clock basis.
C26_TicksDividedBy10000 ==
  cec_state # CEC_STATE_IDLE => tmr1_cnt = CountArmed(10000)

\* C26 as the code has it: ticks = microseconds * basis / 100 with
\* truncating division, basis the stored clock basis (the APB1 clock in
\* units of 10 kHz).
C26_TicksDividedBy100 ==
  cec_state # CEC_STATE_IDLE => tmr1_cnt = CountArmed(100)

C26_Witness ==
  /\ cec_state = CEC_STATE_INITIATOR_ACK_HIGH
  /\ apb1_freq_div_10k = 599
  /\ tmr1_cnt = 2695

\* C27: a request to the send path is answered busy when a transfer is in
\* progress and is accepted otherwise; busy is the only error result.
C27_BusyIsTheOnlyError ==
  [][\A msg \in Requests :
       hc_cec_write(msg) =>
         IF len # 0
         THEN ret' = "EC_RES_BUSY" /\ send_pc' = "idle"
         ELSE ret' = "NONE" /\ send_pc' = "set_len"]_vars

\* C27 as the code has it: a request of size 0 or above 16 is answered
\* invalid-parameter (whether or not a transfer is in progress), a request of
\* a valid size is answered busy when a transfer is in progress and is
\* accepted otherwise, an accepted send ends with success; the result of the
\* host command changes in no interrupt step, and a failed transfer sets
\* the send-failed flag and leaves the result of the host command alone.
C27_BusyOrInvalidParam ==
  /\ [][\A msg \in Requests :
          hc_cec_write(msg) =>
            IF Len(msg) = 0 \/ Len(msg) > MAX_CEC_MSG_LEN
            THEN /\ ret' = "EC_RES_INVALID_PARAM"
                 /\ send_pc' = "idle"
                 /\ UNCHANGED <<tx_vars, tmr2_pending>>
            ELSE IF len # 0
                 THEN ret' = "EC_RES_BUSY" /\ send_pc' = "idle"
                 ELSE ret' = "NONE" /\ send_pc' = "set_len"]_vars
  /\ [](ret \in { "NONE", "EC_RES_SUCCESS", "EC_RES_BUSY",
                   "EC_RES_INVALID_PARAM" })
  /\ [][(ret' # ret) =>
          /\ send_pc = "idle" \/ send_pc = "tmr2_start"
          /\ UNCHANGED <<cec_state, cec_events>>]_vars
  /\ [][(send_pc # "idle" /\ send_pc' = "idle") =>
          ret' = "EC_RES_SUCCESS"]_vars
  /\ [][(tx_failed' > tx_failed) =>
          /\ UNCHANGED ret
          /\ BitOr(cec_events', EC_MKBP_CEC_SEND_FAILED) = cec_events']_vars

C27_Witness ==
  /\ ret = "EC_RES_INVALID_PARAM"
  /\ cec_state = CEC_STATE_INITIATOR_ACK_VERIFY
  /\ len = 1
  /\ send_pc = "idle"

\* The successors the state diagram allows for a state of a frame.
Successors(st) ==
  CASE st = CEC_STATE_INITIATOR_FREE_TIME ->
         { CEC_STATE_INITIATOR_START_LOW }
    [] st = CEC_STATE_INITIATOR_START_LOW ->
         { CEC_STATE_INITIATOR_START_HIGH }
    [] st = CEC_STATE_INITIATOR_START_HIGH ->
         { CEC_STATE_INITIATOR_HEADER_INIT_LOW }
    [] st = CEC_STATE_INITIATOR_HEADER_INIT_LOW ->
         { CEC_STATE_INITIATOR_HEADER_INIT_HIGH }
    [] st = CEC_STATE_INITIATOR_HEADER_INIT_HIGH ->
         { CEC_STATE_INITIATOR_HEADER_INIT_LOW,
           CEC_STATE_INITIATOR_HEADER_DEST_LOW }
    [] st = CEC_STATE_INITIATOR_HEADER_DEST_LOW ->
         { CEC_STATE_INITIATOR_HEADER_DEST_HIGH }
    [] st = CEC_STATE_INITIATOR_HEADER_DEST_HIGH ->
         { CEC_STATE_INITIATOR_HEADER_DEST_LOW,
           CEC_STATE_INITIATOR_EOM_LOW }
    [] st = CEC_STATE_INITIATOR_DATA_LOW ->
         { CEC_STATE_INITIATOR_DATA_HIGH }
    [] st = CEC_STATE_INITIATOR_DATA_HIGH ->
         { CEC_STATE_INITIATOR_DATA_LOW, CEC_STATE_INITIATOR_EOM_LOW }
    [] st = CEC_STATE_INITIATOR_EOM_LOW ->
         { CEC_STATE_INITIATOR_EOM_HIGH }
    [] st = CEC_STATE_INITIATOR_EOM_HIGH ->
         { CEC_STATE_INITIATOR_ACK_LOW }
    [] st = CEC_STATE_INITIATOR_ACK_LOW ->
         { CEC_STATE_INITIATOR_ACK_HIGH }
    [] st = CEC_STATE_INITIATOR_ACK_HIGH ->
         { CEC_STATE_INITIATOR_ACK_VERIFY }
    [] st = CEC_STATE_INITIATOR_ACK_VERIFY ->
         { CEC_STATE_INITIATOR_DATA_LOW, CEC_STATE_IDLE,
           CEC_STATE_INITIATOR_FREE_TIME }
    [] OTHER -> {}

\* C28: every interrupt step for an expiry of timer 1 taken in a state
\* other than idle enters one state, which is a successor of the old state
\* in the state diagram (never the old state itself) and whose entry action
\* has armed the timer and set the line; and the state changes in no other
\* step outside idle.
C28_OneAllowedSuccessorPerExpiry ==
  /\ [][(/\ cec_state # CEC_STATE_IDLE
          /\ \E td \in BOOLEAN, level \in LineLevels :
               cec_isr(TRUE, td, level)) =>
          /\ cec_state' \in Successors(cec_state)
          /\ cec_state' # cec_state
          /\ cec_state' # CEC_STATE_IDLE =>
               /\ tmr1_cnt' = CountArmed(100)'
               /\ gpio_out' =
                    IF cec_state' \in { CEC_STATE_INITIATOR_START_LOW,
                                        CEC_STATE_INITIATOR_HEADER_INIT_LOW,
                                        CEC_STATE_INITIATOR_HEADER_DEST_LOW,
                                        CEC_STATE_INITIATOR_DATA_LOW,
                                        CEC_STATE_INITIATOR_EOM_LOW,
                                        CEC_STATE_INITIATOR_ACK_LOW }
                    THEN 0
                    ELSE IF cec_state' = CEC_STATE_INITIATOR_ACK_VERIFY
                         THEN gpio_out ELSE 1]_vars
  /\ [][(cec_state # CEC_STATE_IDLE /\ cec_state' # cec_state) =>
          cec_state' \in Successors(cec_state)]_vars

C28_Witness ==
  /\ cec_state = CEC_STATE_INITIATOR_DATA_LOW
  /\ len = MAX_CEC_MSG_LEN
  /\ byte = 2
  /\ bit = 0
  /\ resends = 0

\* C29: the header bits are sent at byte offset 0, bit offsets 0..3 in
\* HEADER_INIT_LOW/HIGH and 4..7 in HEADER_DEST_LOW/HIGH; a Low state is
\* followed by its High state with the cursor unchanged, a High state by the
\* Low state of the next bit offset; the first pair starts at bit offset 0,
\* HEADER_DEST starts at bit offset 4, and after the pair of bit offset 7
\* the state machine enters EOM_LOW with the cursor at {byte 1, bit 0},
\* nine bit periods into the frame.
C29_HeaderFourPlusFourPairs ==
  /\ [](cec_state \in { CEC_STATE_INITIATOR_HEADER_INIT_LOW,
                         CEC_STATE_INITIATOR_HEADER_INIT_HIGH } =>
          byte = 0 /\ bit \in 0..3)
  /\ [](cec_state \in { CEC_STATE_INITIATOR_HEADER_DEST_LOW,
                         CEC_STATE_INITIATOR_HEADER_DEST_HIGH } =>
          byte = 0 /\ bit \in 4..7)
  /\ [][(cec_state' # cec_state) =>
          CASE cec_state = CEC_STATE_INITIATOR_START_HIGH ->
                 /\ cec_state' = CEC_STATE_INITIATOR_HEADER_INIT_LOW
                 /\ bit' = 0 /\ byte' = 0
            [] cec_state = CEC_STATE_INITIATOR_HEADER_INIT_LOW ->
                 /\ cec_state' = CEC_STATE_INITIATOR_HEADER_INIT_HIGH
                 /\ UNCHANGED <<bit, byte>>
            [] cec_state = CEC_STATE_INITIATOR_HEADER_INIT_HIGH ->
                 /\ cec_state' = IF bit = 3
                                 THEN CEC_STATE_INITIATOR_HEADER_DEST_LOW
                                 ELSE CEC_STATE_INITIATOR_HEADER_INIT_LOW
                 /\ bit' = bit + 1 /\ byte' = 0
            [] cec_state = CEC_STATE_INITIATOR_HEADER_DEST_LOW ->
                 /\ cec_state' = CEC_STATE_INITIATOR_HEADER_DEST_HIGH
                 /\ UNCHANGED <<bit, byte>>
            [] cec_state = CEC_STATE_INITIATOR_HEADER_DEST_HIGH ->
                 IF bit = 7
                 THEN /\ cec_state' = CEC_STATE_INITIATOR_EOM_LOW
                      /\ bit' = 0 /\ byte' = 1
                      /\ Len(frame_bits') = 9
                 ELSE /\ cec_state' = CEC_STATE_INITIATOR_HEADER_DEST_LOW
                      /\ bit' = bit + 1 /\ byte' = 0
            [] OTHER ->
                 cec_state' \notin { CEC_STATE_INITIATOR_HEADER_INIT_LOW,
                                     CEC_STATE_INITIATOR_HEADER_INIT_HIGH,
                                     CEC_STATE_INITIATOR_HEADER_DEST_LOW,
                                     CEC_STATE_INITIATOR_HEADER_DEST_HIGH }]_vars

C29_Witness ==
  /\ cec_state = CEC_STATE_INITIATOR_EOM_LOW
  /\ byte = 1
  /\ bit = 0
  /\ resends = 1
  /\ frame_bits = << "S", "0", "1", "0", "0", "1", "1", "1", "1" >>

\* C30: a data byte starts in DATA_LOW at bit offset 0, entered from
\* ACK_VERIFY with the cursor unchanged; DATA_LOW is followed by DATA_HIGH
\* with the cursor unchanged, DATA_HIGH by DATA_LOW at the next bit offset,
\* and after the pair of bit offset 7 by EOM_LOW with bit offset 0 and the
\* byte offset one more than during the byte, ten bit periods after the
\* EOM_LOW before it; DATA_LOW and DATA_HIGH are entered in no other way.
C30_DataByteEightPairs ==
  /\ [](cec_state \in { CEC_STATE_INITIATOR_DATA_LOW,
                         CEC_STATE_INITIATOR_DATA_HIGH } =>
          byte \in 1..(len - 1) /\ bit \in 0..7)
  /\ [][(cec_state' # cec_state) =>
          CASE cec_state = CEC_STATE_INITIATOR_ACK_VERIFY
                 /\ cec_state' = CEC_STATE_INITIATOR_DATA_LOW ->
                 /\ ack # 0
                 /\ bit = 0
                 /\ UNCHANGED <<bit, byte>>
            [] cec_state = CEC_STATE_INITIATOR_DATA_LOW ->
                 /\ cec_state' = CEC_STATE_INITIATOR_DATA_HIGH
                 /\ UNCHANGED <<bit, byte>>
            [] cec_state = CEC_STATE_INITIATOR_DATA_HIGH ->
                 IF bit = 7
                 THEN /\ cec_state' = CEC_STATE_INITIATOR_EOM_LOW
                      /\ bit' = 0
                      /\ byte' = byte + 1
                      /\ Len(frame_bits') = 10 * byte + 9
                 ELSE /\ cec_state' = CEC_STATE_INITIATOR_DATA_LOW
                      /\ bit' = bit + 1
                      /\ byte' = byte
            [] OTHER ->
                 cec_state' \notin { CEC_STATE_INITIATOR_DATA_LOW,
                                     CEC_STATE_INITIATOR_DATA_HIGH }]_vars

C30_Witness ==
  /\ cec_state = CEC_STATE_INITIATOR_EOM_LOW
  /\ len = MAX_CEC_MSG_LEN
  /\ byte = MAX_CEC_MSG_LEN
  /\ bit = 0
  /\ Len(frame_bits) = 10 * MAX_CEC_MSG_LEN - 1

\* C31: the output is driven low (0) in START_LOW, HEADER_INIT_LOW,
\* HEADER_DEST_LOW, DATA_LOW, EOM_LOW and ACK_LOW, and is released (1) in
\* FREE_TIME, in every High state, in ACK_VERIFY and in idle once a frame
\* has been sent; before the first transfer starts the output has not been
\* set.
C31_LineLowExactlyInLowStates ==
  /\ cec_state \in { CEC_STATE_INITIATOR_START_LOW,
                      CEC_STATE_INITIATOR_HEADER_INIT_LOW,
                      CEC_STATE_INITIATOR_HEADER_DEST_LOW,
                      CEC_STATE_INITIATOR_DATA_LOW,
                      CEC_STATE_INITIATOR_EOM_LOW,
                      CEC_STATE_INITIATOR_ACK_LOW } => gpio_out = 0
  /\ cec_state \in { CEC_STATE_INITIATOR_FREE_TIME,
                      CEC_STATE_INITIATOR_START_HIGH,
                      CEC_STATE_INITIATOR_HEADER_INIT_HIGH,
                      CEC_STATE_INITIATOR_HEADER_DEST_HIGH,
                      CEC_STATE_INITIATOR_DATA_HIGH,
                      CEC_STATE_INITIATOR_EOM_HIGH,
                      CEC_STATE_INITIATOR_ACK_HIGH,
                      CEC_STATE_INITIATOR_ACK_VERIFY } => gpio_out = 1
  /\ cec_state = CEC_STATE_IDLE =>
       gpio_out = IF tmr1_running THEN 1 ELSE -1

C31_Witness ==
  /\ cec_state = CEC_STATE_IDLE
  /\ TransferDone
  /\ tx_failed = 1
  /\ gpio_out = 1
  /\ line_sample = 0

\* C32: no interrupt step changes the message bytes; a step that does not
\* end the transfer leaves the length and the pending flags unchanged, and
\* the length changes in an interrupt step only to 0, in the step from
\* ACK_VERIFY to idle, which every such step does.
C32_MessageStableUntilTerminal ==
  /\ [][(\E tc, td \in BOOLEAN, level \in LineLevels :
            cec_isr(tc, td, level)) =>
          /\ UNCHANGED buf
          /\ IF cec_state = CEC_STATE_INITIATOR_ACK_VERIFY
                /\ cec_state' = CEC_STATE_IDLE
             THEN len' = 0 /\ len # 0
             ELSE UNCHANGED <<len, cec_events>>]_vars
  /\ [][(len' # len) =>
          \/ send_pc = "set_len" /\ len = 0
          \/ /\ cec_state = CEC_STATE_INITIATOR_ACK_VERIFY
             /\ cec_state' = CEC_STATE_IDLE
             /\ len' = 0]_vars
  /\ [][(buf' # buf) => send_pc = "memcpy" /\ cec_state = CEC_STATE_IDLE]_vars

C32_Witness ==
  /\ cec_state = CEC_STATE_INITIATOR_ACK_VERIFY
  /\ resends = CEC_MAX_RESENDS
  /\ len = 2
  /\ buf[0] = 79
  /\ buf[1] = 1
  /\ byte = 2

\* C33: a host write of size 0 or above 16 is answered invalid-parameter
\* also while a transfer is in progress (the size is tested before the
\* busy test), changes nothing of the driver and starts no send; every
\* request that is admitted has a size in 1..16.
C33_InvalidSizeRejectedFirst ==
  /\ [][\A msg \in InvalidRequests :
          hc_cec_write(msg) =>
            /\ ret' = "EC_RES_INVALID_PARAM"
            /\ UNCHANGED <<buf, len, cec_state, tmr2_pending, bit, byte,
                           resends, cec_events, send_pc, send_msg>>]_vars
  /\ [][\A msg \in Requests :
          (hc_cec_write(msg) /\ send_pc' = "set_len") =>
            Len(msg) \in 1..MAX_CEC_MSG_LEN]_vars
  /\ [](send_pc # "idle" => Len(send_msg) \in 1..MAX_CEC_MSG_LEN)

C33_Witness ==
  /\ ret = "EC_RES_INVALID_PARAM"
  /\ cec_state = CEC_STATE_INITIATOR_FREE_TIME
  /\ len = 2
  /\ resends = 1

\* C34: for every clock basis, the count armed in ACK_LOW plus the count
\* armed in ACK_HIGH is the nominal sample time (1050 us), so the line is
\* sampled, on entry to ACK_VERIFY, at the nominal sample point; and these
\* two counts plus the count armed in ACK_VERIFY are the nominal bit time
\* (2400 us).
C34_AckSlotTiming ==
  /\ [][(cec_state = CEC_STATE_INITIATOR_ACK_LOW /\ cec_state' # cec_state) =>
          /\ cec_state' = CEC_STATE_INITIATOR_ACK_HIGH
          /\ tmr1_cnt = (600 * apb1_freq_div_10k) \div 100
          /\ tmr1_cnt + tmr1_cnt' = NOMINAL_SAMPLE_TIME
          /\ tmr1_cnt + tmr1_cnt' = (1050 * apb1_freq_div_10k) \div 100]_vars
  /\ [][(cec_state = CEC_STATE_INITIATOR_ACK_HIGH /\ cec_state' # cec_state) =>
          /\ cec_state' = CEC_STATE_INITIATOR_ACK_VERIFY
          /\ line_sample' \in {0, 1}
          /\ (600 * apb1_freq_div_10k) \div 100 + tmr1_cnt + tmr1_cnt'
               = (2400 * apb1_freq_div_10k) \div 100
          /\ DATA_ONE_LOW + tmr1_cnt + tmr1_cnt' = NOMINAL_BIT_TIME]_vars

C34_Witness ==
  /\ cec_state = CEC_STATE_INITIATOR_ACK_VERIFY
  /\ apb1_freq_div_10k = 599
  /\ tmr1_cnt = 8087

\* C38: in the step from the Low state to the High state of a header, data
\* or EOM bit the cursor does not move, the two counts are the low and the
\* high time of the same bit value, and for every clock basis they add up
\* to the nominal bit time (2400 us).
C38_BitHalvesSameValue ==
  [][(cec_state \in { CEC_STATE_INITIATOR_HEADER_INIT_LOW,
                      CEC_STATE_INITIATOR_HEADER_DEST_LOW,
                      CEC_STATE_INITIATOR_DATA_LOW,
                      CEC_STATE_INITIATOR_EOM_LOW }
        /\ cec_state' # cec_state) =>
       /\ cec_state' \in { CEC_STATE_INITIATOR_HEADER_INIT_HIGH,
                          CEC_STATE_INITIATOR_HEADER_DEST_HIGH,
                          CEC_STATE_INITIATOR_DATA_HIGH,
                          CEC_STATE_INITIATOR_EOM_HIGH }
       /\ UNCHANGED <<bit, byte, buf, len>>
       /\ \/ /\ tmr1_cnt = (600 * apb1_freq_div_10k) \div 100
             /\ tmr1_cnt' = (1800 * apb1_freq_div_10k) \div 100
          \/ /\ tmr1_cnt = (1500 * apb1_freq_div_10k) \div 100
             /\ tmr1_cnt' = (900 * apb1_freq_div_10k) \div 100
       /\ tmr1_cnt + tmr1_cnt' = (2400 * apb1_freq_div_10k) \div 100
       /\ tmr1_cnt + tmr1_cnt' = NOMINAL_BIT_TIME]_vars

C38_Witness ==
  /\ cec_state = CEC_STATE_INITIATOR_DATA_HIGH
  /\ apb1_freq_div_10k = 599
  /\ byte = 1
  /\ bit = 7
  /\ tmr1_cnt = 10782

\* C35: whatever the acknowledge samples are, the resend counter counts the
\* start bits of the transfer beyond the first, an acknowledged byte in the
\* middle of a frame leaves it alone, and so one transfer enters START_LOW at
\* most 1 + CEC_MAX_RESENDS times.
C35_FramesPerTransferBounded ==
  /\ [](tx_admitted =>
          /\ tx_frames <= 1 + CEC_MAX_RESENDS
          /\ resends <= CEC_MAX_RESENDS
          /\ (cec_state = CEC_STATE_INITIATOR_FREE_TIME
                => tx_frames = resends)
          /\ (cec_state \notin { CEC_STATE_IDLE,
                                 CEC_STATE_INITIATOR_FREE_TIME }
                => tx_frames = resends + 1))
  /\ [][(cec_state = CEC_STATE_INITIATOR_ACK_VERIFY
          /\ cec_state' = CEC_STATE_INITIATOR_DATA_LOW)
         => (ack # 0 /\ UNCHANGED <<resends, tx_frames>>)]_vars

C35_Witness ==
  /\ cec_state = CEC_STATE_INITIATOR_ACK_VERIFY
  /\ byte = 2
  /\ ack = 0
  /\ resends = CEC_MAX_RESENDS
  /\ tx_frames = 1 + CEC_MAX_RESENDS

\* C36: however the steps of cec_send interleave with the interrupt
\* handler, the state machine is outside IDLE, or the start trigger is
\* pending, only when cec_send has finished; the trigger is armed by the
\* last step of cec_send, when the length and the whole message are in
\* cec_tx; and IDLE is left only by the handler serving that trigger.
C36_StartsOnlyAfterCopy ==
  /\ []((cec_state # CEC_STATE_IDLE \/ tmr2_pending) => send_pc = "idle")
  /\ [][(tmr2_pending' /\ ~tmr2_pending) =>
          /\ send_pc = "tmr2_start"
          /\ cec_state = CEC_STATE_IDLE
          /\ len = Len(send_msg)
          /\ \A i \in 1..Len(send_msg) : buf[i - 1] = send_msg[i]
          /\ UNCHANGED <<buf, len>>]_vars
  /\ [][(cec_state = CEC_STATE_IDLE /\ cec_state' # CEC_STATE_IDLE) =>
          /\ tmr2_pending /\ ~tmr2_pending'
          /\ cec_state' = CEC_STATE_INITIATOR_FREE_TIME
          /\ UNCHANGED <<buf, len>>]_vars

\* cec_send is between its first and its second store, timer 1 can still
\* raise its interrupt, and the buffer holds the previous message.
C36_Witness ==
  /\ send_pc = "memcpy"
  /\ cec_state = CEC_STATE_IDLE
  /\ tmr1_running
  /\ len = 2
  /\ send_msg = <<79, 1>>
  /\ buf[0] = 64

\* C37: an expiry of timer 1 in IDLE is ignored: the transition function
\* returns the state, cursor, length, resend counter, flags, line level
\* and timer exactly as they are, so the handler run for timer 1 alone is
\* no change at all; and the step that enters IDLE arms no timer and does
\* not drive the line.
C37_IdleIgnoresExpiry ==
  /\ [](cec_state = CEC_STATE_IDLE =>
          \A level \in {0, 1} :
            /\ cec_event_timeout(Snapshot, level) = Snapshot
            /\ IsrResult(TRUE, FALSE, level) = Snapshot)
  /\ [][\A level \in {0, 1} :
          (cec_state = CEC_STATE_IDLE /\ cec_isr(TRUE, FALSE, level))
            => UNCHANGED vars]_vars
  /\ [][(cec_state # CEC_STATE_IDLE /\ cec_state' = CEC_STATE_IDLE) =>
          UNCHANGED <<gpio_out, tmr1_cnt, tmr1_running, tmr2_pending>>]_vars

C37_Witness ==
  /\ cec_state = CEC_STATE_IDLE
  /\ tmr1_running
  /\ tx_ok = 1
  /\ len = 0
  /\ resends = 0
  /\ tmr1_cnt = NOMINAL_BIT_TIME - NOMINAL_SAMPLE_TIME
  /\ send_pc = "idle"

\* C39: when a history print finishes and no port 80 write came in while it
\* ran, it has printed the last min(writes, HISTORY_LEN) written values, in
\* the order they were written, the oldest first.
C39_HistoryPrintsLastWrites ==
  [][(p80_pc = "print" /\ p80_pc' = "idle" /\ p80_raced = 0) =>
       LET total == Len(p80_written)
           n == IF total < HISTORY_LEN THEN total ELSE HISTORY_LEN
       IN /\ writes = total
          /\ console'.cmd = "history"
          /\ console'.done
          /\ Len(console'.vals) = n
          /\ \A k \in 1..n :
               console'.vals[k] = p80_written[total - n + k]]_vars

C39_Witness ==
  /\ p80_pc = "idle"
  /\ console.cmd = "history"
  /\ console.done
  /\ p80_raced = 0
  /\ writes = 20
  /\ console.vals = <<254, 255, 0, 1, 2, 3, 4, 5, 6, 7, 8, 9, 10, 11, 12, 13>>

====
